---- MODULE Spec2Model ----
(***************************************************************************)
(* Delta-neutral prediction-market arbitrage (barter-arb-strategy):        *)
(* fee model, NO-ask derivation, depth walker, opportunity builder and     *)
(* the strategy's evaluation cycle.                                        *)
(*                                                                         *)
(* Decimal values (rust_decimal::Decimal) are integers counting units of   *)
(* 1/DecScale dollar.  Sums, differences and the products the code forms   *)
(* from venue prices are exact, as they are in the code; a division is     *)
(* rounded to the last kept digit, as Decimal division is.                 *)
(***************************************************************************)
EXTENDS Integers, Sequences, FiniteSets, TLC

(***************************************************************************)
(* Bounds of the model.                                                    *)
(***************************************************************************)
\* Longest ladder (levels per book side).
MaxLevels == 2

(***************************************************************************)
(* Decimal arithmetic.                                                     *)
(***************************************************************************)
\* Units per dollar: the fractional digits a Decimal keeps (8 here, 28 in
\* rust_decimal).  Venue prices are whole cents, so every fee per contract
\* is a whole number of 1/1000000 dollar and only divisions round.
DecScale == 100000000

ZERO == 0

ONE == DecScale

\* One cent, the venue's price tick.
Cent == DecScale \div 100

\* Decimal::from(n) for an integer n.
DecFrom(n) == n * DecScale

\* Decimal / Decimal::from(n), n > 0: the quotient rounded to the nearest
\* unit of the last kept digit, a tie to the even neighbour.
DecDiv(a, n) ==
    LET q == a \div n
        r == a % n
    IN  IF 2 * r > n \/ (2 * r = n /\ q % 2 = 1) THEN q + 1 ELSE q

\* A to_u32 that rounds a fractional amount up.
ToU32Ceil(a) == IF a <= 0 THEN 0 ELSE (a + DecScale - 1) \div DecScale

\* Decimal::to_u32().unwrap_or(0): the integral part of a non-negative
\* value, 0 for a negative one.
ToU32(a) == IF a <= 0 THEN 0 ELSE a \div DecScale

DecMin(a, b) == IF a <= b THEN a ELSE b

(***************************************************************************)
(* Fee model (fees.rs).                                                    *)
(***************************************************************************)
\* 0.07, Decimal::new(7, 2).
KalshiFeeRatePct == 7

\* A Kalshi fee charged on the price alone: 0.07 * contracts * price.
kalshi_taker_fee_on_price(price, contracts) ==
    (KalshiFeeRatePct * contracts * (price \div Cent)) * (DecScale \div 10000)

\* 0.07 * contracts * price * (1 - price), exact.
kalshi_taker_fee(price, contracts) ==
    (KalshiFeeRatePct * contracts * (price \div Cent) * ((ONE - price) \div Cent))
        * (DecScale \div 1000000)

kalshi_maker_fee(price, contracts) == ZERO

\* contracts * price * (fee_bps / 10000), exact.
polymarket_taker_fee(price, contracts, fee_bps) ==
    (contracts * (price \div Cent) * fee_bps) * (DecScale \div 1000000)

polymarket_maker_rebate(price, contracts, rebate_bps) ==
    (contracts * (price \div Cent) * rebate_bps) * (DecScale \div 1000000)

(***************************************************************************)
(* Venues and outcomes.                                                    *)
(***************************************************************************)
Kalshi == "Kalshi"
Polymarket == "Polymarket"
\* Any other ExchangeId: the `_ =>` arm of the fee match.
OtherExchange == "Other"

Yes == "Yes"
No == "No"

Level(price, amount) == [price |-> price, amount |-> amount]

(***************************************************************************)
(* Book derivation (strategy.rs, derive_no_asks).                          *)
(***************************************************************************)
\* A derived level that keeps the bid's price.
DeriveLevelKeepPrice(l) == Level(l.price, l.amount)

\* A derived level whose amount is cut to whole contracts.
DeriveLevelWholeAmount(l) == Level(ONE - l.price, DecFrom(ToU32(l.amount)))

\* One derived level: (1 - price, amount).
DeriveLevel(l) == Level(ONE - l.price, l.amount)

\* The NO asks of a YES book: its bids mapped level by level, in order.
derive_no_asks(yes_book) ==
    [i \in 1..Len(yes_book.bids) |-> DeriveLevel(yes_book.bids[i])]

(***************************************************************************)
(* Depth walker (strategy.rs, walk_orderbook_levels).                      *)
(***************************************************************************)
\* The fee of one side of a fill, by that side's venue.
\* A per-fill fee that applies the Kalshi formula on every venue.
SideFeeKalshiEverywhere(platform, price, fill_size, poly_fee_bps) ==
    kalshi_taker_fee(price, fill_size)

SideFee(platform, price, fill_size, poly_fee_bps) ==
    CASE platform = Kalshi -> kalshi_taker_fee(price, fill_size)
      [] platform = Polymarket -> polymarket_taker_fee(price, fill_size, poly_fee_bps)
      [] OTHER -> ZERO

\* first().map(|l| l.amount).unwrap_or(ZERO)
FirstAmount(asks) == IF Len(asks) > 0 THEN asks[1].amount ELSE ZERO

\* The walker's locals before the loop.  Indices are the code's (from 0).
WalkStart(yes_asks, no_asks) ==
    [ total_size |-> 0,
      total_yes_cost |-> ZERO,
      total_no_cost |-> ZERO,
      total_fees |-> ZERO,
      total_profit |-> ZERO,
      yes_idx |-> 0,
      no_idx |-> 0,
      yes_remaining |-> FirstAmount(yes_asks),
      no_remaining |-> FirstAmount(no_asks),
      running |-> TRUE ]

\* The while condition.
LoopCond(yes_asks, no_asks, st) ==
    st.yes_idx < Len(yes_asks) /\ st.no_idx < Len(no_asks)

FillAmount(st) == DecMin(st.yes_remaining, st.no_remaining)

FillSize(st) == ToU32(FillAmount(st))

\* A cost per contract that leaves the fees out.
CostPerContractNoFees(yes_price, no_price, yes_fee, no_fee, fill_size) ==
    yes_price + no_price

\* yes_price + no_price + (yes_fee + no_fee) / fill_decimal, fill_size > 0.
CostPerContract(yes_price, no_price, yes_fee, no_fee, fill_size) ==
    yes_price + no_price + DecDiv(yes_fee + no_fee, fill_size)

\* A break test that never breaks.
UnprofitableNever(cost_per_contract) == FALSE

\* A break test that lets a cost of exactly 1.00 through.
UnprofitableStrict(cost_per_contract) == cost_per_contract > ONE

\* The break test of a level pair.
Unprofitable(cost_per_contract) == cost_per_contract >= ONE

\* A deduction of the whole contracts filled only.
DeductedWhole(st) == DecFrom(FillSize(st))

\* The amount the walk deducts from both remaining counters after a fill.
Deducted(st) == FillAmount(st)

\* One pass through the loop body (or the loop's exit when its condition
\* is false).  running = FALSE once the loop has been left.
WalkIter(yes_asks, no_asks, yes_platform, no_platform, poly_fee_bps, st) ==
    IF ~LoopCond(yes_asks, no_asks, st) THEN [st EXCEPT !.running = FALSE]
    ELSE
    LET yes_price == yes_asks[st.yes_idx + 1].price
        no_price == no_asks[st.no_idx + 1].price
        fill_size == FillSize(st)
        yes_fee == SideFee(yes_platform, yes_price, fill_size, poly_fee_bps)
        no_fee == SideFee(no_platform, no_price, fill_size, poly_fee_bps)
        cost_per_contract ==
            CostPerContract(yes_price, no_price, yes_fee, no_fee, fill_size)
        yes_rem == st.yes_remaining - Deducted(st)
        no_rem == st.no_remaining - Deducted(st)
        yes_idx2 == IF yes_rem <= ZERO THEN st.yes_idx + 1 ELSE st.yes_idx
        no_idx2 == IF no_rem <= ZERO THEN st.no_idx + 1 ELSE st.no_idx
        yes_rem2 == IF yes_rem <= ZERO /\ yes_idx2 < Len(yes_asks)
                    THEN yes_asks[yes_idx2 + 1].amount ELSE yes_rem
        no_rem2 == IF no_rem <= ZERO /\ no_idx2 < Len(no_asks)
                   THEN no_asks[no_idx2 + 1].amount ELSE no_rem
    IN  IF fill_size = 0 THEN [st EXCEPT !.running = FALSE]
        ELSE IF Unprofitable(cost_per_contract) THEN [st EXCEPT !.running = FALSE]
        ELSE [ total_size |-> st.total_size + fill_size,
               total_yes_cost |-> st.total_yes_cost + yes_price * fill_size,
               total_no_cost |-> st.total_no_cost + no_price * fill_size,
               total_fees |-> st.total_fees + yes_fee + no_fee,
               total_profit |-> st.total_profit + (ONE - cost_per_contract) * fill_size,
               yes_idx |-> yes_idx2,
               no_idx |-> no_idx2,
               yes_remaining |-> yes_rem2,
               no_remaining |-> no_rem2,
               running |-> ~(yes_rem2 <= ZERO /\ no_rem2 <= ZERO) ]

\* The code after the loop: the averages, guarded against total_size = 0.
WalkFinish(st) ==
    IF st.total_size > 0
    THEN LET avg_yes == DecDiv(st.total_yes_cost, st.total_size)
             avg_no == DecDiv(st.total_no_cost, st.total_size)
             avg_fee == DecDiv(st.total_fees, st.total_size)
         IN  [ total_size |-> st.total_size,
               total_profit |-> st.total_profit,
               avg_yes_price |-> avg_yes,
               avg_no_price |-> avg_no,
               total_fees |-> st.total_fees,
               total_cost |-> avg_yes + avg_no + avg_fee ]
    ELSE [ total_size |-> st.total_size,
           total_profit |-> st.total_profit,
           avg_yes_price |-> ZERO,
           avg_no_price |-> ZERO,
           total_fees |-> st.total_fees,
           total_cost |-> ZERO ]

RECURSIVE WalkLoop(_, _, _, _, _, _)
WalkLoop(yes_asks, no_asks, yes_platform, no_platform, poly_fee_bps, st) ==
    IF ~st.running THEN st
    ELSE WalkLoop(yes_asks, no_asks, yes_platform, no_platform, poly_fee_bps,
                  WalkIter(yes_asks, no_asks, yes_platform, no_platform, poly_fee_bps, st))

walk_orderbook_levels(yes_asks, no_asks, yes_platform, no_platform, poly_fee_bps) ==
    WalkFinish(WalkLoop(yes_asks, no_asks, yes_platform, no_platform, poly_fee_bps,
                        WalkStart(yes_asks, no_asks)))

(***************************************************************************)
(* Correlated pairs and instrument keys (correlation.rs).                  *)
(***************************************************************************)
\* PredictionMarketKey::new
Key(exchange, market_id, outcome) ==
    [exchange |-> exchange, market_id |-> market_id, outcome |-> outcome]

kalshi_yes(ticker) == Key(Kalshi, ticker, Yes)

kalshi_no(ticker) == Key(Kalshi, ticker, No)

polymarket_yes(token_id) == Key(Polymarket, token_id, Yes)

polymarket_no(token_id) == Key(Polymarket, token_id, No)

\* Time is counted in half days.
DayLen == 2

\* chrono's Duration::num_days: whole days, truncated toward zero.
NumDays(d) == IF d >= 0 THEN d \div DayLen ELSE -((-d) \div DayLen)

days_to_expiry(pair, now) == NumDays(pair.expiry - now)

\* An expiry test that lets the instant of expiry pass.
is_expired_after(pair, now) == pair.expiry < now

is_expired(pair, now) == pair.expiry <= now

(***************************************************************************)
(* Opportunities (opportunity.rs: OrderSide, ArbitrageOpportunity).        *)
(***************************************************************************)
YesPolyNoKalshi == "YesPolyNoKalshi"
YesKalshiNoPoly == "YesKalshiNoPoly"

\* OrderSide::poly(token_id, outcome, price, size)
OrderSide_poly(token_id, outcome, price, size) ==
    [ exchange |-> Polymarket, instrument |-> Key(Polymarket, token_id, outcome),
      outcome |-> outcome, price |-> price, size |-> size ]

\* OrderSide::kalshi(ticker, outcome, price, size)
OrderSide_kalshi(ticker, outcome, price, size) ==
    [ exchange |-> Kalshi, instrument |-> Key(Kalshi, ticker, outcome),
      outcome |-> outcome, price |-> price, size |-> size ]

\* OrderSide::order_value: price * size.
order_value(side) == side.price * side.size

\* ArbitrageOpportunity::is_profitable
is_profitable(opp) == opp.expected_profit > ZERO

\* ArbitrageOpportunity::meets_threshold: profit per contract >= min_spread.
meets_threshold(opp, min_spread) ==
    opp.max_contracts > 0 /\ DecDiv(opp.expected_profit, opp.max_contracts) >= min_spread

(***************************************************************************)
(* Opportunity builder (strategy.rs, check_pair_for_arbitrage).            *)
(***************************************************************************)
\* A guard with both comparisons off by one.
QualifiesNonNegative(result) == result.total_size >= 0 /\ result.total_profit >= ZERO

\* The test guarding each push: total_size > 0 && total_profit > 0.
Qualifies(result) == result.total_size > 0 /\ result.total_profit > ZERO

\* An opportunity literal that leaves total_fees unset.
OpportunityWithoutFees(pair, direction, yes_side, no_side, result) ==
    [ pair |-> pair,
      direction |-> direction,
      yes_side |-> yes_side,
      no_side |-> no_side,
      total_cost |-> result.total_cost,
      avg_yes_price |-> result.avg_yes_price,
      avg_no_price |-> result.avg_no_price,
      max_contracts |-> result.total_size,
      expected_profit |-> result.total_profit,
      total_fees |-> ZERO ]

\* The ArbitrageOpportunity literal built from a walk's result.
Opportunity(pair, direction, yes_side, no_side, result) ==
    [ pair |-> pair,
      direction |-> direction,
      yes_side |-> yes_side,
      no_side |-> no_side,
      total_cost |-> result.total_cost,
      avg_yes_price |-> result.avg_yes_price,
      avg_no_price |-> result.avg_no_price,
      max_contracts |-> result.total_size,
      expected_profit |-> result.total_profit,
      total_fees |-> result.total_fees ]

\* A Direction 1 walk that charges each leg the other venue's fee.
Direction1WalkVenuesSwapped(pair, poly_yes_book, kalshi_yes_book, poly_fee_bps) ==
    IF pair.inverse
    THEN walk_orderbook_levels(poly_yes_book.asks, kalshi_yes_book.asks,
                               Polymarket, Kalshi, poly_fee_bps)
    ELSE walk_orderbook_levels(poly_yes_book.asks, derive_no_asks(kalshi_yes_book),
                               Kalshi, Polymarket, poly_fee_bps)

\* The walk of Direction 1 (Poly YES leg) of a pair over its two YES books.
Direction1Walk(pair, poly_yes_book, kalshi_yes_book, poly_fee_bps) ==
    IF pair.inverse
    THEN walk_orderbook_levels(poly_yes_book.asks, kalshi_yes_book.asks,
                               Polymarket, Kalshi, poly_fee_bps)
    ELSE walk_orderbook_levels(poly_yes_book.asks, derive_no_asks(kalshi_yes_book),
                               Polymarket, Kalshi, poly_fee_bps)

\* A Direction 2 walk that does not look at the pair's inverse flag.
Direction2WalkIgnoringInverse(pair, poly_yes_book, kalshi_yes_book, poly_fee_bps) ==
    walk_orderbook_levels(kalshi_yes_book.asks, derive_no_asks(poly_yes_book),
                          Kalshi, Polymarket, poly_fee_bps)

\* The walk of Direction 2 (Kalshi leg against Poly NO).
Direction2Walk(pair, poly_yes_book, kalshi_yes_book, poly_fee_bps) ==
    IF pair.inverse
    THEN walk_orderbook_levels(derive_no_asks(kalshi_yes_book), derive_no_asks(poly_yes_book),
                               Kalshi, Polymarket, poly_fee_bps)
    ELSE walk_orderbook_levels(kalshi_yes_book.asks, derive_no_asks(poly_yes_book),
                               Kalshi, Polymarket, poly_fee_bps)

Direction1Opp(pair, result1) ==
    Opportunity(pair, YesPolyNoKalshi,
        OrderSide_poly(pair.polymarket_yes_token, Yes,
                       result1.avg_yes_price, result1.total_size),
        OrderSide_kalshi(pair.kalshi_ticker, IF pair.inverse THEN Yes ELSE No,
                         result1.avg_no_price, result1.total_size),
        result1)

Direction2Opp(pair, result2) ==
    Opportunity(pair, YesKalshiNoPoly,
        OrderSide_kalshi(pair.kalshi_ticker, IF pair.inverse THEN No ELSE Yes,
                         result2.avg_yes_price, result2.total_size),
        OrderSide_poly(pair.polymarket_no_token, No,
                       result2.avg_no_price, result2.total_size),
        result2)

\* A builder that tries Direction 2 only when Direction 1 gave nothing.
check_pair_for_arbitrage_first_match(pair, books, poly_fee_bps) ==
    LET poly_yes_key == polymarket_yes(pair.polymarket_yes_token)
        kalshi_yes_key == kalshi_yes(pair.kalshi_ticker)
    IN  IF poly_yes_key \notin DOMAIN books THEN <<>>
        ELSE IF kalshi_yes_key \notin DOMAIN books THEN <<>>
        ELSE
        LET poly_yes_book == books[poly_yes_key]
            kalshi_yes_book == books[kalshi_yes_key]
            result1 == Direction1Walk(pair, poly_yes_book, kalshi_yes_book, poly_fee_bps)
            result2 == Direction2Walk(pair, poly_yes_book, kalshi_yes_book, poly_fee_bps)
        IN  IF Qualifies(result1) THEN <<Direction1Opp(pair, result1)>>
            ELSE IF Qualifies(result2) THEN <<Direction2Opp(pair, result2)>>
            ELSE <<>>

\* books: a function from the keys that have a book to their books.
check_pair_for_arbitrage(pair, books, poly_fee_bps) ==
    LET poly_yes_key == polymarket_yes(pair.polymarket_yes_token)
        kalshi_yes_key == kalshi_yes(pair.kalshi_ticker)
    IN  IF poly_yes_key \notin DOMAIN books THEN <<>>
        ELSE IF kalshi_yes_key \notin DOMAIN books THEN <<>>
        ELSE
        LET poly_yes_book == books[poly_yes_key]
            kalshi_yes_book == books[kalshi_yes_key]
            result1 == Direction1Walk(pair, poly_yes_book, kalshi_yes_book, poly_fee_bps)
            result2 == Direction2Walk(pair, poly_yes_book, kalshi_yes_book, poly_fee_bps)
        IN  (IF Qualifies(result1) THEN <<Direction1Opp(pair, result1)>> ELSE <<>>)
            \o (IF Qualifies(result2) THEN <<Direction2Opp(pair, result2)>> ELSE <<>>)

(***************************************************************************)
(* Strategy (strategy.rs, PredictionArbitrageStrategy).                    *)
(***************************************************************************)
\* A filter that wants days-to-expiry strictly below the maximum.
MonitoredStrictlyBelow(pair, config, now) ==
    /\ ~is_expired(pair, now)
    /\ (config.max_days_to_expiry.is_some
            => days_to_expiry(pair, now) < config.max_days_to_expiry.value)

\* The pairs detect_opportunities evaluates: not expired, not too far out.
Monitored(pair, config, now) ==
    /\ ~is_expired(pair, now)
    /\ (config.max_days_to_expiry.is_some
            => days_to_expiry(pair, now) <= config.max_days_to_expiry.value)

\* A scan that ends at the first pair with a YES book missing.
RECURSIVE detect_opportunities_until_missing(_, _, _, _, _)
detect_opportunities_until_missing(prs, config, books, poly_fee_bps, now) ==
    IF prs = <<>> THEN <<>>
    ELSE IF \/ polymarket_yes(Head(prs).polymarket_yes_token) \notin DOMAIN books
            \/ kalshi_yes(Head(prs).kalshi_ticker) \notin DOMAIN books
         THEN <<>>
    ELSE (IF Monitored(Head(prs), config, now)
          THEN check_pair_for_arbitrage(Head(prs), books, poly_fee_bps)
          ELSE <<>>)
         \o detect_opportunities_until_missing(Tail(prs), config, books, poly_fee_bps, now)

\* A scan that ends at the first monitored pair with no opportunity.
RECURSIVE detect_opportunities_until_unprofitable(_, _, _, _, _)
detect_opportunities_until_unprofitable(prs, config, books, poly_fee_bps, now) ==
    IF prs = <<>> THEN <<>>
    ELSE IF Monitored(Head(prs), config, now)
            /\ check_pair_for_arbitrage(Head(prs), books, poly_fee_bps) = <<>>
         THEN <<>>
    ELSE (IF Monitored(Head(prs), config, now)
          THEN check_pair_for_arbitrage(Head(prs), books, poly_fee_bps)
          ELSE <<>>)
         \o detect_opportunities_until_unprofitable(Tail(prs), config, books,
                                                    poly_fee_bps, now)

RECURSIVE detect_opportunities(_, _, _, _, _)
detect_opportunities(prs, config, books, poly_fee_bps, now) ==
    IF prs = <<>> THEN <<>>
    ELSE (IF Monitored(Head(prs), config, now)
          THEN check_pair_for_arbitrage(Head(prs), books, poly_fee_bps)
          ELSE <<>>)
         \o detect_opportunities(Tail(prs), config, books, poly_fee_bps, now)

MinOrderValue(config, exchange) ==
    CASE exchange = Polymarket -> config.min_order_value.polymarket
      [] exchange = Kalshi -> config.min_order_value.kalshi
      [] OTHER -> ZERO

\* A minimum-value test that looks at the YES leg only.
passes_min_order_values_yes_leg(config, opp) ==
    order_value(opp.yes_side) >= MinOrderValue(config, opp.yes_side.exchange)

passes_min_order_values(config, opp) ==
    /\ order_value(opp.yes_side) >= MinOrderValue(config, opp.yes_side.exchange)
    /\ order_value(opp.no_side) >= MinOrderValue(config, opp.no_side.exchange)

\* A position test that lets every size through.
passes_position_limits_unbounded(config, opp) == TRUE

passes_position_limits(config, opp) ==
    opp.max_contracts <= config.max_position_per_market

\* The four filters of generate_algo_orders, in order.
Valid(config, opp) ==
    /\ meets_threshold(opp, config.min_spread_threshold)
    /\ is_profitable(opp)
    /\ passes_position_limits(config, opp)
    /\ passes_min_order_values(config, opp)

\* valid_opps: the opportunities that pass the filters, in order.
RECURSIVE ValidOpps(_, _)
ValidOpps(config, opportunities) ==
    IF opportunities = <<>> THEN <<>>
    ELSE (IF Valid(config, Head(opportunities)) THEN <<Head(opportunities)>> ELSE <<>>)
         \o ValidOpps(config, Tail(opportunities))

\* StrategyId of the running strategy.
StrategyId == "arb"

\* next_order_id's ClientOrderId::new(format!("{}_{}", id, n)): the text is
\* kept as its two parts, the strategy id and the counter value.
ClientOrderId(n) == <<StrategyId, n>>

\* One order request.  An instrument resolves to itself (its index entry).
OrderRequest(key, cid, price, quantity) ==
    [ exchange |-> key.exchange,
      instrument |-> key,
      cid |-> cid,
      side |-> "Buy",
      price |-> price,
      quantity |-> quantity,
      kind |-> "Limit",
      time_in_force |-> "ImmediateOrCancel" ]

\* An order pair that builds the YES order before the NO leg is resolved.
generate_order_pair_yes_first(index, counter, opp) ==
    IF opp.yes_side.instrument \notin index THEN <<>>
    ELSE IF opp.no_side.instrument \notin index
    THEN << [ exchange |-> opp.yes_side.instrument.exchange,
              instrument |-> opp.yes_side.instrument,
              cid |-> ClientOrderId(counter + 1), side |-> "Buy", price |-> opp.avg_yes_price,
              quantity |-> DecFrom(opp.max_contracts), kind |-> "Limit",
              time_in_force |-> "ImmediateOrCancel" ] >>
    ELSE << [ exchange |-> opp.yes_side.instrument.exchange,
              instrument |-> opp.yes_side.instrument,
              cid |-> ClientOrderId(counter + 1), side |-> "Buy", price |-> opp.avg_yes_price,
              quantity |-> DecFrom(opp.max_contracts), kind |-> "Limit",
              time_in_force |-> "ImmediateOrCancel" ],
            [ exchange |-> opp.no_side.instrument.exchange,
              instrument |-> opp.no_side.instrument,
              cid |-> ClientOrderId(counter + 2), side |-> "Buy", price |-> opp.avg_no_price,
              quantity |-> DecFrom(opp.max_contracts), kind |-> "Limit",
              time_in_force |-> "ImmediateOrCancel" ] >>

\* An order pair with the two legs' prices exchanged.
generate_order_pair_prices_swapped(index, counter, opp) ==
    IF opp.yes_side.instrument \notin index THEN <<>>
    ELSE IF opp.no_side.instrument \notin index THEN <<>>
    ELSE << OrderRequest(opp.yes_side.instrument, ClientOrderId(counter + 1),
                         opp.avg_no_price, DecFrom(opp.max_contracts)),
            OrderRequest(opp.no_side.instrument, ClientOrderId(counter + 2),
                         opp.avg_yes_price, DecFrom(opp.max_contracts)) >>

\* An order pair whose two legs carry the id of one next_order_id call.
generate_order_pair_one_id(index, counter, opp) ==
    IF opp.yes_side.instrument \notin index THEN <<>>
    ELSE IF opp.no_side.instrument \notin index THEN <<>>
    ELSE << OrderRequest(opp.yes_side.instrument, ClientOrderId(counter + 1),
                         opp.avg_yes_price, DecFrom(opp.max_contracts)),
            OrderRequest(opp.no_side.instrument, ClientOrderId(counter + 1),
                         opp.avg_no_price, DecFrom(opp.max_contracts)) >>

\* generate_order_pair: the orders of one opportunity, given the set of
\* keys the instrument index holds and the order counter before the call.
\* Both legs are resolved before the first next_order_id call; the YES
\* order takes the first id and the NO order the second.
generate_order_pair(index, counter, opp) ==
    IF opp.yes_side.instrument \notin index THEN <<>>
    ELSE IF opp.no_side.instrument \notin index THEN <<>>
    ELSE << OrderRequest(opp.yes_side.instrument, ClientOrderId(counter + 1),
                         opp.avg_yes_price, DecFrom(opp.max_contracts)),
            OrderRequest(opp.no_side.instrument, ClientOrderId(counter + 2),
                         opp.avg_no_price, DecFrom(opp.max_contracts)) >>

\* The flat_map of generate_order_pair over the valid opportunities; each
\* emitted order takes the next counter value.
RECURSIVE GenerateOrders(_, _, _)
GenerateOrders(index, counter, valid_opps) ==
    IF valid_opps = <<>> THEN <<>>
    ELSE LET orders == generate_order_pair(index, counter, Head(valid_opps))
         IN  orders \o GenerateOrders(index, counter + Len(orders), Tail(valid_opps))

(***************************************************************************)
(* The risk manager (risk.rs).                                             *)
(***************************************************************************)
ArbitrageRiskManager(max_total_capital, max_order_notional) ==
    [ max_total_capital |-> max_total_capital,
      max_order_notional |-> max_order_notional ]

\* order.state.price * order.state.quantity.  The quantity of an emitted
\* order is Decimal::from(max_contracts), a whole number of contracts.
Notional(order) == order.price * ToU32(order.quantity)

\* The first test of an open request.
ExceedsMaxCapital(manager, deployed, notional) ==
    deployed + notional > manager.max_total_capital

\* A per-order test that already refuses a notional equal to the maximum.
ExceedsMaxNotionalOrEqual(manager, notional) ==
    notional >= manager.max_order_notional

\* The second test of an open request.
ExceedsMaxNotional(manager, notional) ==
    notional > manager.max_order_notional

\* RiskRefused::new(order, reason); the reason is the formatted message
\* without its numbers.
RiskRefused(item, reason) == [item |-> item, reason |-> reason]

\* ArbitrageRiskManager::check.  deployed is read from the state once, before
\* the loop over the opens.
check(manager, total_deployed, cancel_requests, open_requests) ==
    LET deployed == total_deployed
        Refuse(order) ==
            \/ ExceedsMaxCapital(manager, deployed, Notional(order))
            \/ ExceedsMaxNotional(manager, Notional(order))
        Approve(order) == ~Refuse(order)
        refused == SelectSeq(open_requests, Refuse)
    IN  [ approved_cancels |-> cancel_requests,
          approved_opens |-> SelectSeq(open_requests, Approve),
          refused_cancels |-> <<>>,
          refused_opens |->
              [ i \in 1..Len(refused) |->
                  RiskRefused(refused[i],
                      IF ExceedsMaxCapital(manager, deployed, Notional(refused[i]))
                      THEN "Would exceed max capital: deployed + order > max"
                      ELSE "Order notional exceeds max") ] ]

(***************************************************************************)
(* Input alphabets.                                                        *)
(***************************************************************************)
\* Level amounts: 0.5, 1, 1.5 and 2 contracts.
Amounts == {DecScale \div 2, DecScale, 3 * (DecScale \div 2), 2 * DecScale}

\* Ask prices offered to the walker alone, in cents.
WalkYesCents == {40, 43, 50, 53}

WalkNoCents == {45, 49, 50}

\* The strictly ascending ladders of at most MaxLevels levels over a set of
\* cent prices.
AskLadders(cents) ==
    UNION { { l \in [1..n -> [price : {c * Cent : c \in cents}, amount : Amounts]] :
                \A i \in 1..(n - 1) : l[i].price < l[i + 1].price } : n \in 0..MaxLevels }

\* The strictly descending ladders (bids).
BidLadders(cents) ==
    UNION { { l \in [1..n -> [price : {c * Cent : c \in cents}, amount : Amounts]] :
                \A i \in 1..(n - 1) : l[i].price > l[i + 1].price } : n \in 0..MaxLevels }

\* Venue pairs the walker is called with, and one pair of other venues.
WalkPlatforms ==
    { <<Polymarket, Kalshi>>, <<Kalshi, Polymarket>>, <<OtherExchange, OtherExchange>> }

\* poly_fee_bps: the default 50 and a fee-free venue.
FeeBps == {0, 50}

\* Every ladder of at most MaxLevels levels, sorted or not.
AnyLadders(cents) ==
    UNION { [1..n -> [price : {c * Cent : c \in cents}, amount : Amounts]] : n \in 0..MaxLevels }

\* Every ladder of at most MaxLevels levels over cent prices and amounts.
LaddersOver(cents, amounts) ==
    UNION { [1..n -> [price : {c * Cent : c \in cents}, amount : amounts]] : n \in 0..MaxLevels }

\* Ladders as a feed may hold them: prices in any order, amounts negative,
\* zero, fractional or whole.
WalkAnyYes == LaddersOver({40, 60}, {-DecScale, ZERO, DecScale, 3 * (DecScale \div 2)})

WalkAnyNo == LaddersOver({30, 58}, {ZERO, 3 * (DecScale \div 2), 2 * DecScale})

\* Whole-contract amounts of the books the engine is fed: 1 and 3.
BookAmounts == {DecScale, 3 * DecScale}

BookLadders(cents, ascending) ==
    UNION { { l \in [1..n -> [price : {c * Cent : c \in cents}, amount : BookAmounts]] :
                \A i \in 1..(n - 1) :
                    IF ascending THEN l[i].price < l[i + 1].price
                    ELSE l[i].price > l[i + 1].price } : n \in 0..2 }

OrderBook(bids, asks) == [bids |-> bids, asks |-> asks]

\* OrderBook::new with no bids and no asks.
EmptyBook == OrderBook(<<>>, <<>>)

\* Polymarket YES books: a ladder of asks over 40c and 53c, one bid or none.
PolyBooks ==
    { OrderBook(b, a) : b \in {<<>>, <<Level(60 * Cent, 2 * DecScale)>>},
                        a \in BookLadders({40, 53}, TRUE) }

\* Kalshi YES books: a ladder of bids over 55c and 52c, one ask or none.
KalshiBooks ==
    { OrderBook(b, a) : b \in BookLadders({52, 55}, FALSE),
                        a \in {<<>>, <<Level(45 * Cent, DecScale)>>} }

\* The monitored pair, inverse or not.  It expires at time 2 (one day after
\* the start).
Pair(inverse) ==
    [ kalshi_ticker |-> "KXTEST",
      polymarket_yes_token |-> "0xyes",
      polymarket_no_token |-> "0xno",
      expiry |-> 2,
      inverse |-> inverse ]

AllKeys ==
    { kalshi_yes("KXTEST"), kalshi_no("KXTEST"),
      polymarket_yes("0xyes"), polymarket_no("0xno") }

YesKeys == { kalshi_yes("KXTEST"), polymarket_yes("0xyes") }

BooksFor(key) == IF key.exchange = Polymarket THEN PolyBooks ELSE KalshiBooks

Some(v) == [is_some |-> TRUE, value |-> v]

None == [is_some |-> FALSE, value |-> 0]

\* Two configurations: the defaults with a short expiry horizon, and one
\* with no thresholds but a two-contract position limit.
Configs ==
    { [ min_spread_threshold |-> 2 * Cent,
        max_position_per_market |-> 1000,
        min_order_value |-> [kalshi |-> ZERO, polymarket |-> ONE],
        max_days_to_expiry |-> Some(0) ],
      [ min_spread_threshold |-> ZERO,
        max_position_per_market |-> 2,
        min_order_value |-> [kalshi |-> ZERO, polymarket |-> ZERO],
        max_days_to_expiry |-> None ] }

\* poly_fee_bps as both constructors set it.
DefaultPolyFeeBps == 50

\* Latest time the clock reaches.
MaxNow == 2

\* order_counter value from which no further cycle is run.
MaxOrderCounter == 4

\* Contract counts and fee rates offered to the fee functions.
MaxContracts == 3

(***************************************************************************)
(* State.                                                                  *)
(***************************************************************************)
VARIABLES
    w_in,       \* the arguments of the walk in progress
    w_st,       \* the walker's locals
    w_fills,    \* the fills accumulated so far, in order
    w_result,   \* the WalkResult returned, NoResult before the return
    pairs,              \* strategy.pairs
    config,             \* strategy.config
    instrument_index,   \* the keys strategy.instrument_index holds
    order_counter,      \* strategy.order_counter
    instruments,        \* per instrument, its data's orderbook (NoBook: None)
    now,                \* Utc::now(), in half days
    pc,                 \* "idle", or "emitted" while a cycle's lists are held
    opportunities,      \* the list detect_opportunities returned in the cycle
    opens,              \* the open requests generate_algo_orders returned
    cancels,            \* the cancel requests it returned
    closed,             \* the Kalshi market's last event was a lifecycle event
    issued,             \* history: every client order id handed out, in order
    f_in,       \* the arguments of the fee functions
    f_out,      \* their results
    d_bids,     \* the bid ladder of a YES book
    d_no_asks,  \* derive_no_asks of it
    d_back,     \* the derivation applied to the derived ladder
    dt_in,      \* a strategy's pairs and config, a book map and the time
    dt_first,   \* what detect_opportunities returned for them
    dt_second,  \* what it returned when called again
    r_in,       \* a risk manager, the deployed capital and the requests to check
    r_out,      \* the four lists check returned, NoResult before the call
    k_book,     \* a KalshiOrderBook
    k_last,     \* the last operation applied to it and what it found
    i_data,     \* an ArbitrageInstrumentData
    g_data,     \* the ArbitrageGlobalData
    s_last,     \* the last event the two processed, and the data before it
    recorder,   \* an OrderbookRecorder
    rec_seen,   \* history: updates seen so far, per instrument
    rec_last    \* the last update the recorder took and whether it wrote

walkVars == <<w_in, w_st, w_fills, w_result>>

engineVars ==
    <<pairs, config, instrument_index, order_counter, instruments, now, pc,
      opportunities, opens, cancels, closed, issued>>

feeVars == <<f_in, f_out>>

deriveVars == <<d_bids, d_no_asks, d_back>>

detectVars == <<dt_in, dt_first, dt_second>>

riskVars == <<r_in, r_out>>

kalshiVars == <<k_book, k_last>>

stateVars == <<i_data, g_data, s_last>>

recorderVars == <<recorder, rec_seen, rec_last>>

vars ==
    <<walkVars, engineVars, feeVars, deriveVars, detectVars, riskVars, kalshiVars,
      stateVars, recorderVars>>

NoResult == [total_size |-> -1]

NoBook == [none |-> TRUE]

NoLadder == <<[none |-> TRUE]>>

NoList == <<[none |-> TRUE]>>

\* The parts of the state a specification does not use stay at these values.
WalkIdle ==
    /\ w_in = [ yes_asks |-> <<>>, no_asks |-> <<>>,
                platforms |-> <<OtherExchange, OtherExchange>>, poly_fee_bps |-> 0 ]
    /\ w_st = WalkStart(<<>>, <<>>)
    /\ w_fills = <<>>
    /\ w_result = NoResult

EngineIdle ==
    /\ pairs = <<>>
    /\ config = [ min_spread_threshold |-> ZERO, max_position_per_market |-> 0,
                  min_order_value |-> [kalshi |-> ZERO, polymarket |-> ZERO],
                  max_days_to_expiry |-> None ]
    /\ instrument_index = {}
    /\ order_counter = 0
    /\ instruments = [k \in AllKeys |-> NoBook]
    /\ now = 0
    /\ pc = "idle"
    /\ opportunities = <<>>
    /\ opens = <<>>
    /\ cancels = <<>>
    /\ closed = FALSE
    /\ issued = <<>>

StateIdle ==
    /\ i_data = [ orderbook |-> None, position |-> 0, avg_entry |-> None,
                  cost_basis |-> ZERO ]
    /\ g_data = [ total_deployed |-> ZERO, kalshi_balance |-> ZERO,
                  polymarket_balance |-> ZERO ]
    /\ s_last = [op |-> "none"]

RecorderIdle ==
    /\ recorder = [snapshot_interval |-> 1, delta_counts |-> <<>>, total_written |-> 0]
    /\ rec_seen = <<>>
    /\ rec_last = [op |-> "none"]

FeeIdle ==
    /\ f_in = [price |-> 50 * Cent, contracts |-> 0, bps |-> 0]
    /\ f_out = NoResult

DeriveIdle ==
    /\ d_bids = <<>>
    /\ d_no_asks = NoLadder
    /\ d_back = NoLadder

DetectIdle ==
    /\ dt_in = [ pairs |-> <<>>, max_days_to_expiry |-> None, now |-> 0,
                 books |-> <<>> ]
    /\ dt_first = NoList
    /\ dt_second = NoList

RiskIdle ==
    /\ r_in = [ manager |-> ArbitrageRiskManager(ZERO, ZERO), total_deployed |-> ZERO,
                cancels |-> <<>>, opens |-> <<>> ]
    /\ r_out = NoResult

KalshiIdle ==
    /\ k_book = [yes |-> <<>>, no |-> <<>>, seq |-> 0]
    /\ k_last = [op |-> "none"]

(***************************************************************************)
(* The walk, one loop pass per step.                                       *)
(***************************************************************************)
WalkInit ==
    /\ w_in \in [ yes_asks : AskLadders(WalkYesCents),
                  no_asks : AskLadders(WalkNoCents),
                  platforms : WalkPlatforms,
                  poly_fee_bps : FeeBps ]
    /\ w_st = WalkStart(w_in.yes_asks, w_in.no_asks)
    /\ w_fills = <<>>
    /\ w_result = NoResult
    /\ EngineIdle /\ FeeIdle /\ DeriveIdle /\ DetectIdle /\ RiskIdle /\ KalshiIdle
    /\ StateIdle /\ RecorderIdle

\* The level pair under the cursors and its marginal cost.
CurYes == w_in.yes_asks[w_st.yes_idx + 1]

CurNo == w_in.no_asks[w_st.no_idx + 1]

CurCost ==
    CostPerContract(CurYes.price, CurNo.price,
        SideFee(w_in.platforms[1], CurYes.price, FillSize(w_st), w_in.poly_fee_bps),
        SideFee(w_in.platforms[2], CurNo.price, FillSize(w_st), w_in.poly_fee_bps),
        FillSize(w_st))

InLoop == w_st.running /\ LoopCond(w_in.yes_asks, w_in.no_asks, w_st)

Iterate ==
    w_st' = WalkIter(w_in.yes_asks, w_in.no_asks, w_in.platforms[1], w_in.platforms[2],
                     w_in.poly_fee_bps, w_st)

\* The loop condition is false: the loop is left.
WalkExit ==
    /\ w_st.running
    /\ ~LoopCond(w_in.yes_asks, w_in.no_asks, w_st)
    /\ Iterate
    /\ UNCHANGED <<w_in, w_fills, w_result, engineVars, feeVars, deriveVars, detectVars,
                   riskVars, kalshiVars,
                   stateVars, recorderVars>>

\* fill_size == 0: break.
WalkNoFill ==
    /\ InLoop
    /\ FillSize(w_st) = 0
    /\ Iterate
    /\ UNCHANGED <<w_in, w_fills, w_result, engineVars, feeVars, deriveVars, detectVars,
                   riskVars, kalshiVars,
                   stateVars, recorderVars>>

\* cost_per_contract >= 1: break.
WalkStop ==
    /\ InLoop
    /\ FillSize(w_st) > 0
    /\ Unprofitable(CurCost)
    /\ Iterate
    /\ UNCHANGED <<w_in, w_fills, w_result, engineVars, feeVars, deriveVars, detectVars,
                   riskVars, kalshiVars,
                   stateVars, recorderVars>>

\* The level pair is accepted: the fill is accumulated, the cursors move.
WalkAccept ==
    /\ InLoop
    /\ FillSize(w_st) > 0
    /\ ~Unprofitable(CurCost)
    /\ Iterate
    /\ w_fills' = Append(w_fills,
            [ yes_idx |-> w_st.yes_idx, no_idx |-> w_st.no_idx,
              yes_remaining |-> w_st.yes_remaining, no_remaining |-> w_st.no_remaining,
              size |-> FillSize(w_st), cost |-> CurCost ])
    /\ UNCHANGED <<w_in, w_result, engineVars, feeVars, deriveVars, detectVars,
                   riskVars, kalshiVars,
                   stateVars, recorderVars>>

\* The averages are formed and the WalkResult returned.
WalkReturn ==
    /\ ~w_st.running
    /\ w_result = NoResult
    /\ w_result' = WalkFinish(w_st)
    /\ UNCHANGED <<w_in, w_st, w_fills, engineVars, feeVars, deriveVars, detectVars,
                   riskVars, kalshiVars,
                   stateVars, recorderVars>>

WalkNext == WalkExit \/ WalkNoFill \/ WalkStop \/ WalkAccept \/ WalkReturn

WalkSpec == WalkInit /\ [][WalkNext]_vars

\* The walk over ladders of any shape.  The walker is a sequential function:
\* once called it keeps taking steps until it has returned.
WalkAnyInit ==
    /\ w_in \in [ yes_asks : WalkAnyYes,
                  no_asks : WalkAnyNo,
                  platforms : {<<Polymarket, Kalshi>>},
                  poly_fee_bps : {DefaultPolyFeeBps} ]
    /\ w_st = WalkStart(w_in.yes_asks, w_in.no_asks)
    /\ w_fills = <<>>
    /\ w_result = NoResult
    /\ EngineIdle /\ FeeIdle /\ DeriveIdle /\ DetectIdle /\ RiskIdle /\ KalshiIdle
    /\ StateIdle /\ RecorderIdle

WalkAnySpec == WalkAnyInit /\ [][WalkNext]_vars /\ WF_vars(WalkNext)

(***************************************************************************)
(* The engine: book events, the clock and the evaluation cycle.            *)
(***************************************************************************)
Init ==
    /\ pairs \in { <<Pair(inverse)>> : inverse \in BOOLEAN }
    /\ config \in Configs
    /\ instrument_index \in { index \in SUBSET AllKeys : YesKeys \subseteq index }
    /\ order_counter = 0
    /\ instruments = [k \in AllKeys |-> NoBook]
    /\ now = 0
    /\ pc = "idle"
    /\ opportunities = <<>>
    /\ opens = <<>>
    /\ cancels = <<>>
    /\ closed = FALSE
    /\ issued = <<>>
    /\ WalkIdle /\ FeeIdle /\ DeriveIdle /\ DetectIdle /\ RiskIdle /\ KalshiIdle
    /\ StateIdle /\ RecorderIdle

\* build_book_map: the books of the indexed instruments that have one.
build_book_map ==
    [ k \in { key \in instrument_index : instruments[key] # NoBook } |-> instruments[k] ]

\* ArbitrageInstrumentData::process of an OrderBook event, Snapshot or Update
\* alike: the event's book replaces the stored one.  The feed carries the YES
\* books.
BookEvent ==
    /\ pc = "idle"
    /\ \E key \in YesKeys \cap instrument_index : \E book \in BooksFor(key) :
         /\ instruments' = [instruments EXCEPT ![key] = book]
         /\ closed' = IF key.exchange = Kalshi /\ book # EmptyBook THEN FALSE ELSE closed
    /\ UNCHANGED <<pairs, config, instrument_index, order_counter, now, pc,
                   opportunities, opens, cancels, issued, walkVars, feeVars, deriveVars,
                   detectVars,
                   riskVars, kalshiVars,
                   stateVars, recorderVars>>

\* A lifecycle message that is noted but leaves the stored book as it is.
LifecycleEventKeepingBook ==
    /\ pc = "idle"
    /\ closed' = TRUE
    /\ UNCHANGED <<pairs, config, instrument_index, order_counter, instruments, now, pc,
                   opportunities, opens, cancels, issued, walkVars, feeVars, deriveVars,
                   detectVars, riskVars, kalshiVars,
                   stateVars, recorderVars>>

\* The lifecycle message of the Kalshi market, turned into a MarketEvent: a
\* Snapshot of an empty book for the instrument of the market's orderbook
\* subscription, which process stores like any other book.
LifecycleEvent ==
    /\ pc = "idle"
    /\ \E key \in { k \in YesKeys \cap instrument_index : k.exchange = Kalshi } :
         instruments' = [instruments EXCEPT ![key] = EmptyBook]
    /\ closed' = TRUE
    /\ UNCHANGED <<pairs, config, instrument_index, order_counter, now, pc,
                   opportunities, opens, cancels, issued, walkVars, feeVars, deriveVars,
                   detectVars, riskVars, kalshiVars,
                   stateVars, recorderVars>>

\* Time passes.
Tick ==
    /\ pc = "idle"
    /\ now < MaxNow
    /\ now' = now + 1
    /\ UNCHANGED <<pairs, config, instrument_index, order_counter, instruments, pc,
                   opportunities, opens, cancels, closed, issued, walkVars, feeVars,
                   deriveVars, detectVars, riskVars, kalshiVars,
                   stateVars, recorderVars>>

\* generate_algo_orders: collect the books, detect, filter, emit.
Cycle ==
    /\ pc = "idle"
    /\ order_counter < MaxOrderCounter
    /\ LET detected == detect_opportunities(pairs, config, build_book_map,
                                            DefaultPolyFeeBps, now)
           orders == GenerateOrders(instrument_index, order_counter,
                                    ValidOpps(config, detected))
       IN  /\ opportunities' = detected
           /\ opens' = orders
           /\ cancels' = <<>>
           /\ order_counter' = order_counter + Len(orders)
           /\ issued' = issued \o [i \in 1..Len(orders) |-> orders[i].cid]
    /\ pc' = "emitted"
    /\ UNCHANGED <<pairs, config, instrument_index, instruments, now, closed,
                   walkVars, feeVars, deriveVars, detectVars,
                   riskVars, kalshiVars,
                   stateVars, recorderVars>>

\* The engine takes the returned lists; the strategy keeps nothing of them.
Deliver ==
    /\ pc = "emitted"
    /\ pc' = "idle"
    /\ opportunities' = <<>>
    /\ opens' = <<>>
    /\ cancels' = <<>>
    /\ UNCHANGED <<pairs, config, instrument_index, order_counter, instruments, now,
                   closed, issued, walkVars, feeVars, deriveVars, detectVars,
                   riskVars, kalshiVars,
                   stateVars, recorderVars>>

Next == BookEvent \/ LifecycleEvent \/ Tick \/ Cycle \/ Deliver

Spec == Init /\ [][Next]_vars

(***************************************************************************)
(* The fee functions applied to drawn arguments.                           *)
(***************************************************************************)
FeeInit ==
    /\ f_in \in [ price : {c * Cent : c \in 1..99},
                  contracts : 0..MaxContracts,
                  bps : FeeBps ]
    /\ f_out = NoResult
    /\ WalkIdle /\ EngineIdle /\ DeriveIdle /\ DetectIdle /\ RiskIdle /\ KalshiIdle
    /\ StateIdle /\ RecorderIdle

FeeApply ==
    /\ f_out = NoResult
    /\ f_out' = [ kalshi_taker |-> kalshi_taker_fee(f_in.price, f_in.contracts),
                  kalshi_taker_mirror |-> kalshi_taker_fee(ONE - f_in.price, f_in.contracts),
                  kalshi_taker_half |-> kalshi_taker_fee(50 * Cent, f_in.contracts),
                  kalshi_maker |-> kalshi_maker_fee(f_in.price, f_in.contracts),
                  polymarket_taker |->
                      polymarket_taker_fee(f_in.price, f_in.contracts, f_in.bps),
                  polymarket_rebate |->
                      polymarket_maker_rebate(f_in.price, f_in.contracts, f_in.bps) ]
    /\ UNCHANGED <<f_in, walkVars, engineVars, deriveVars, detectVars,
                   riskVars, kalshiVars,
                   stateVars, recorderVars>>

FeeNext == FeeApply

FeeSpec == FeeInit /\ [][FeeNext]_vars

(***************************************************************************)
(* derive_no_asks applied to a drawn bid ladder, and to its own output.    *)
(***************************************************************************)
DeriveCents == {45, 52, 55}

DeriveInit ==
    /\ d_bids \in AnyLadders(DeriveCents)
    /\ d_no_asks = NoLadder
    /\ d_back = NoLadder
    /\ WalkIdle /\ EngineIdle /\ FeeIdle /\ DetectIdle /\ RiskIdle /\ KalshiIdle
    /\ StateIdle /\ RecorderIdle

Derive ==
    /\ d_no_asks = NoLadder
    /\ d_no_asks' = derive_no_asks(OrderBook(d_bids, <<>>))
    /\ UNCHANGED <<d_bids, d_back, walkVars, engineVars, feeVars, detectVars,
                   riskVars, kalshiVars,
                   stateVars, recorderVars>>

\* The derived ladder taken as the bids of a book and derived again.
DeriveBack ==
    /\ d_no_asks # NoLadder
    /\ d_back = NoLadder
    /\ d_back' = derive_no_asks(OrderBook(d_no_asks, <<>>))
    /\ UNCHANGED <<d_bids, d_no_asks, walkVars, engineVars, feeVars, detectVars,
                   riskVars, kalshiVars,
                   stateVars, recorderVars>>

DeriveNext == Derive \/ DeriveBack

DeriveSpec == DeriveInit /\ [][DeriveNext]_vars

(***************************************************************************)
(* detect_opportunities applied to two pairs and a drawn book map, twice.  *)
(***************************************************************************)
\* Two correlated pairs of distinct markets.
PairA(expiry, inverse) ==
    [ kalshi_ticker |-> "KXTEST",
      polymarket_yes_token |-> "0xyes",
      polymarket_no_token |-> "0xno",
      expiry |-> expiry,
      inverse |-> inverse ]

PairB(expiry, inverse) ==
    [ kalshi_ticker |-> "KXOTHER",
      polymarket_yes_token |-> "0xyes2",
      polymarket_no_token |-> "0xno2",
      expiry |-> expiry,
      inverse |-> inverse ]

\* Expiry times, in half days: half a day, one day and two days from time 0.
Expiries == {1, 2, 4}

\* max_days_to_expiry: unset, 0 days, 1 day.
MaxDays == {None, Some(0), Some(1)}

DetectYesKeys ==
    { polymarket_yes("0xyes"), kalshi_yes("KXTEST"),
      polymarket_yes("0xyes2"), kalshi_yes("KXOTHER") }

\* Two books per venue: one that makes both directions of a pair
\* profitable against its counterpart, one with a single side.
DetectPolyBooks ==
    { OrderBook(<<Level(60 * Cent, DecScale)>>, <<Level(40 * Cent, DecScale)>>),
      OrderBook(<<>>, <<Level(53 * Cent, 3 * DecScale)>>) }

DetectKalshiBooks ==
    { OrderBook(<<Level(55 * Cent, 3 * DecScale)>>, <<Level(45 * Cent, DecScale)>>),
      OrderBook(<<Level(52 * Cent, DecScale)>>, <<>>) }

\* The book maps: any subset of the YES keys, each with a book of its venue.
BookMaps ==
    UNION { { books \in [keys -> DetectPolyBooks \cup DetectKalshiBooks] :
                \A k \in keys :
                    books[k] \in (IF k.exchange = Polymarket THEN DetectPolyBooks
                                  ELSE DetectKalshiBooks) } :
            keys \in SUBSET DetectYesKeys }

DetectInit ==
    /\ dt_in \in [ pairs : { <<PairA(ea, ia), PairB(eb, ib)>> :
                             ea \in Expiries, eb \in Expiries,
                             ia \in BOOLEAN, ib \in BOOLEAN },
                  max_days_to_expiry : MaxDays,
                  now : 0..MaxNow,
                  books : BookMaps ]
    /\ dt_first = NoList
    /\ dt_second = NoList
    /\ WalkIdle /\ EngineIdle /\ FeeIdle /\ DeriveIdle /\ RiskIdle /\ KalshiIdle
    /\ StateIdle /\ RecorderIdle

\* The strategy's configuration as far as detection reads it.
DetectConfig == [ max_days_to_expiry |-> dt_in.max_days_to_expiry ]

\* A second call that appends to the list the first call returned.
DetectAgainAppending ==
    /\ dt_first # NoList
    /\ dt_second = NoList
    /\ dt_second' = dt_first \o detect_opportunities(dt_in.pairs, DetectConfig, dt_in.books,
                                                     DefaultPolyFeeBps, dt_in.now)
    /\ UNCHANGED <<dt_in, dt_first, walkVars, engineVars, feeVars, deriveVars,
                   riskVars, kalshiVars,
                   stateVars, recorderVars>>

\* detect_opportunities(&books)
Detect ==
    /\ dt_first = NoList
    /\ dt_first' = detect_opportunities(dt_in.pairs, DetectConfig, dt_in.books,
                                        DefaultPolyFeeBps, dt_in.now)
    /\ UNCHANGED <<dt_in, dt_second, walkVars, engineVars, feeVars, deriveVars,
                   riskVars, kalshiVars,
                   stateVars, recorderVars>>

\* detect_opportunities(&books) again: same strategy, same map, same time.
DetectAgain ==
    /\ dt_first # NoList
    /\ dt_second = NoList
    /\ dt_second' = detect_opportunities(dt_in.pairs, DetectConfig, dt_in.books,
                                         DefaultPolyFeeBps, dt_in.now)
    /\ UNCHANGED <<dt_in, dt_first, walkVars, engineVars, feeVars, deriveVars,
                   riskVars, kalshiVars,
                   stateVars, recorderVars>>

DetectNext == Detect \/ DetectAgain

DetectSpec == DetectInit /\ [][DetectNext]_vars

(***************************************************************************)
(* The risk check of a batch of emitted order pairs.                       *)
(***************************************************************************)
\* The two legs of an opportunity as generate_order_pair emits them: YES leg
\* first, the same whole quantity on both.
EmittedPair(counter, yes_price, no_price, contracts) ==
    << OrderRequest(polymarket_yes("0xyes"), counter + 1, yes_price, DecFrom(contracts)),
       OrderRequest(kalshi_no("KXTEST"), counter + 2, no_price, DecFrom(contracts)) >>

\* Leg prices and sizes of the pairs offered to the check.
EmittedPairs(counter) ==
    { EmittedPair(counter, yes_cents * Cent, 45 * Cent, contracts) :
        yes_cents \in {40, 53}, contracts \in 1..MaxContracts }

\* The opens of one cycle: no pair, one pair or two.
Batches ==
    {<<>>} \cup EmittedPairs(0)
           \cup { first \o second : first \in EmittedPairs(0), second \in EmittedPairs(2) }

CancelBatches == { <<>>, <<"c1">>, <<"c1", "c2">> }

RiskManagers ==
    { ArbitrageRiskManager(max_total_capital, max_order_notional) :
        max_total_capital \in {ONE, 3 * ONE},
        max_order_notional \in {90 * Cent, 2 * ONE} }

RiskInit ==
    /\ r_in \in [ manager : RiskManagers,
                  total_deployed : {ZERO, 60 * Cent},
                  cancels : CancelBatches,
                  opens : Batches ]
    /\ r_out = NoResult
    /\ WalkIdle /\ EngineIdle /\ FeeIdle /\ DeriveIdle /\ DetectIdle /\ KalshiIdle
    /\ StateIdle /\ RecorderIdle

RiskCheck ==
    /\ r_out = NoResult
    /\ r_out' = check(r_in.manager, r_in.total_deployed, r_in.cancels, r_in.opens)
    /\ UNCHANGED <<r_in, walkVars, engineVars, feeVars, deriveVars, detectVars,
                   kalshiVars,
                   stateVars, recorderVars>>

RiskNext == RiskCheck

RiskSpec == RiskInit /\ [][RiskNext]_vars

(***************************************************************************)
(* The Kalshi order book (kalshi/book/l2.rs).                              *)
(***************************************************************************)
\* Width that stands for the 32 bits of u32 and i32.
IntBits == 3

U32Max == 2^IntBits - 1

I32Max == 2^(IntBits - 1) - 1

I32Min == -(2^(IntBits - 1))

\* `as i32` of a u32: the same bits, read as two's complement.
AsI32(n) == IF n > I32Max THEN n - 2^IntBits ELSE n

\* i32 addition that wraps (overflow checks off).
WrappingAdd(a, b) == ((a + b - I32Min) % 2^IntBits) + I32Min

Overflows(a, b) == a + b > I32Max \/ a + b < I32Min

KalshiLevel(price, amount) == [price |-> price, amount |-> amount]

\* BTreeMap::insert and BTreeMap::remove on a side.
MapInsert(map, price, amount) ==
    [ p \in DOMAIN map \cup {price} |-> IF p = price THEN amount ELSE map[p] ]

MapRemove(map, price) == [ p \in DOMAIN map \ {price} |-> map[p] ]

\* from_snapshot's loop over one side: the levels with a positive amount.
RECURSIVE InsertLevels(_, _)
InsertLevels(map, levels) ==
    IF levels = <<>> THEN map
    ELSE InsertLevels(IF Head(levels)[2] > 0
                      THEN MapInsert(map, Head(levels)[1], Head(levels)[2])
                      ELSE map,
                      Tail(levels))

\* KalshiOrderBook::from_snapshot; last_update is left out.
from_snapshot(snapshot) ==
    [ yes |-> InsertLevels(<<>>, snapshot.yes),
      no |-> InsertLevels(<<>>, snapshot.no),
      seq |-> snapshot.seq ]

\* The book a delta leaves, given what the i32 addition came to.
DeltaApplied(book, delta, sum) ==
    LET new_size == IF sum > 0 THEN sum ELSE 0
        side == book[delta.side]
        side2 == IF new_size = 0 THEN MapRemove(side, delta.price)
                 ELSE MapInsert(side, delta.price, new_size)
    IN  [ [book EXCEPT ![delta.side] = side2] EXCEPT !.seq = delta.seq ]

\* get(&price).copied().unwrap_or(0)
CurrentSize(book, delta) ==
    IF delta.price \in DOMAIN book[delta.side] THEN book[delta.side][delta.price] ELSE 0

\* KalshiOrderBook::apply_delta.  An i32 addition that overflows panics in a
\* build with overflow checks and wraps in one without: Panicked stands for
\* the first outcome.
Panicked == [panicked |-> TRUE]

\* An apply_delta that stores the sequence number before it looks at the side.
apply_delta_seq_first(book, delta, overflow_checks) ==
    IF delta.side \notin {"yes", "no"} THEN [book EXCEPT !.seq = delta.seq]
    ELSE LET current == AsI32(CurrentSize(book, delta))
         IN  IF Overflows(current, delta.delta)
             THEN IF overflow_checks THEN Panicked
                  ELSE DeltaApplied(book, delta, WrappingAdd(current, delta.delta))
             ELSE DeltaApplied(book, delta, current + delta.delta)

apply_delta(book, delta, overflow_checks) ==
    IF delta.side \notin {"yes", "no"} THEN book
    ELSE LET current == AsI32(CurrentSize(book, delta))
         IN  IF Overflows(current, delta.delta)
             THEN IF overflow_checks THEN Panicked
                  ELSE DeltaApplied(book, delta, WrappingAdd(current, delta.delta))
             ELSE DeltaApplied(book, delta, current + delta.delta)

\* KalshiOrderBook::clear
clear(book) == [book EXCEPT !.yes = <<>>, !.no = <<>>]

\* The key iter().next() of a side yields, and the one next_back() yields.
FirstKey(map) == CHOOSE p \in DOMAIN map : \A q \in DOMAIN map : p <= q

LastKey(map) == CHOOSE p \in DOMAIN map : \A q \in DOMAIN map : q <= p

best_yes_bid(book) ==
    IF DOMAIN book.yes = {} THEN None
    ELSE Some(KalshiLevel(LastKey(book.yes), book.yes[LastKey(book.yes)]))

best_yes_ask(book) ==
    IF DOMAIN book.no = {} THEN None
    ELSE Some(KalshiLevel(100 - LastKey(book.no), book.no[LastKey(book.no)]))

best_no_bid(book) ==
    IF DOMAIN book.no = {} THEN None
    ELSE Some(KalshiLevel(LastKey(book.no), book.no[LastKey(book.no)]))

best_no_ask(book) ==
    IF DOMAIN book.yes = {} THEN None
    ELSE Some(KalshiLevel(100 - LastKey(book.yes), book.yes[LastKey(book.yes)]))

\* Cent prices of the levels, and the amounts a snapshot lists: none, one
\* contract, and the two ends of the upper half of u32.
KalshiCents == {40, 60}

SnapshotAmounts == {0, 1, I32Max + 1, U32Max}

SnapshotSides ==
    {<<>>} \cup { <<<<price, amount>>>> : price \in KalshiCents, amount \in SnapshotAmounts }
           \cup { << <<40, amount>>, <<60, 1>> >> : amount \in SnapshotAmounts }

\* The signed changes a delta message carries.
DeltaAmounts == {I32Min, -1, 1, I32Max}

DeltaSides == {"yes", "no", "maybe"}

\* Latest sequence number a message carries.
MaxSeq == 3

KalshiInit ==
    /\ \E yes \in SnapshotSides, no \in SnapshotSides :
         /\ k_book = from_snapshot([yes |-> yes, no |-> no, seq |-> 1])
         /\ k_last = [op |-> "snapshot", msg |-> [yes |-> yes, no |-> no, seq |-> 1]]
    /\ WalkIdle /\ EngineIdle /\ FeeIdle /\ DeriveIdle /\ DetectIdle /\ RiskIdle
    /\ StateIdle /\ RecorderIdle

Alive == k_last.op # "panic" /\ k_book.seq < MaxSeq

\* A snapshot message: the book is built anew from it.
KSnapshot ==
    /\ Alive
    /\ \E yes \in SnapshotSides, no \in SnapshotSides :
         LET snapshot == [yes |-> yes, no |-> no, seq |-> k_book.seq + 1]
         IN  /\ k_book' = from_snapshot(snapshot)
             /\ k_last' = [op |-> "snapshot", msg |-> snapshot]
    /\ UNCHANGED <<walkVars, engineVars, feeVars, deriveVars, detectVars, riskVars,
                   stateVars, recorderVars>>

DeltaMsg(side, price, delta) ==
    [side |-> side, price |-> price, delta |-> delta, seq |-> k_book.seq + 1]

\* A delta message applied to the book.
KDelta(side, price, delta) ==
    /\ Alive
    /\ \E overflow_checks \in BOOLEAN :
         LET book == apply_delta(k_book, DeltaMsg(side, price, delta), overflow_checks)
         IN  IF book = Panicked
             THEN k_book' = k_book /\ k_last' = [op |-> "panic"]
             ELSE k_book' = book /\ k_last' = [op |-> "delta"]
    /\ UNCHANGED <<walkVars, engineVars, feeVars, deriveVars, detectVars, riskVars,
                   stateVars, recorderVars>>

KDeltas ==
    \E side \in DeltaSides, price \in KalshiCents, delta \in DeltaAmounts :
        KDelta(side, price, delta)

KClear ==
    /\ k_last.op # "panic"
    /\ k_book' = clear(k_book)
    /\ k_last' = [op |-> "clear"]
    /\ UNCHANGED <<walkVars, engineVars, feeVars, deriveVars, detectVars, riskVars,
                   stateVars, recorderVars>>

KalshiNext == KSnapshot \/ KDeltas \/ KClear

KalshiSpec == KalshiInit /\ [][KalshiNext]_vars

(***************************************************************************)
(* The instrument data and the global data (state.rs).                     *)
(***************************************************************************)
\* i32 arithmetic that wraps: abs, and `as u32` of the result.
WrappingAbs(n) == IF n = I32Min THEN I32Min ELSE IF n < 0 THEN -n ELSE n

AsU32(n) == IF n < 0 THEN n + 2^IntBits ELSE n

\* Decimal / Decimal::from(n) for an n of either sign.
DecDivSigned(a, n) ==
    LET q == DecDiv(IF a < 0 THEN -a ELSE a, IF n < 0 THEN -n ELSE n)
    IN  IF (a < 0) = (n < 0) THEN q ELSE -q

\* ArbitrageInstrumentData::update_orderbook
update_orderbook(data, book) == [data EXCEPT !.orderbook = Some(book)]

\* The i32 operations update_position runs into with these arguments that
\* overflow: the sum, an abs of i32::MIN, a difference.
PositionOverflows(data, quantity) ==
    LET new_position == WrappingAdd(data.position, quantity)
        qabs == WrappingAbs(quantity)
        pabs == WrappingAbs(data.position)
        reduce_by == IF qabs <= pabs THEN qabs ELSE pabs
    IN  \/ Overflows(data.position, quantity)
        \/ quantity = I32Min
        \/ IF data.position = 0 THEN FALSE
           ELSE IF (data.position > 0) = (quantity > 0) THEN new_position = I32Min
           ELSE \/ data.position = I32Min
                \/ Overflows(pabs, -reduce_by)
                \/ (WrappingAdd(pabs, -reduce_by) = 0 /\ new_position # 0
                    /\ Overflows(qabs, -reduce_by))

\* ArbitrageInstrumentData::update_position.  An i32 operation that
\* overflows panics in a build with overflow checks and wraps in one
\* without; a division by Decimal zero panics in both.
update_position(data, quantity, price, overflow_checks) ==
    IF quantity = 0 THEN data
    ELSE IF overflow_checks /\ PositionOverflows(data, quantity) THEN Panicked
    ELSE
    LET new_position == WrappingAdd(data.position, quantity)
        qabs == WrappingAbs(quantity)
        pabs == WrappingAbs(data.position)
        reduce_by == IF qabs <= pabs THEN qabs ELSE pabs
        remaining == WrappingAdd(pabs, -reduce_by)
        flip_amount == AsU32(WrappingAdd(qabs, -reduce_by))
        add_cost == price * qabs
    IN  IF data.position = 0
        THEN [data EXCEPT !.position = new_position, !.avg_entry = Some(price),
                          !.cost_basis = price * qabs]
        ELSE IF (data.position > 0) = (quantity > 0)
        THEN IF new_position = 0 THEN Panicked
             ELSE [data EXCEPT !.position = new_position,
                               !.cost_basis = data.cost_basis + add_cost,
                               !.avg_entry = Some(DecDivSigned(data.cost_basis + add_cost,
                                                               WrappingAbs(new_position)))]
        ELSE IF remaining = 0
        THEN IF new_position = 0
             THEN [data EXCEPT !.position = new_position, !.avg_entry = None,
                               !.cost_basis = ZERO]
             ELSE [data EXCEPT !.position = new_position, !.avg_entry = Some(price),
                               !.cost_basis = price * flip_amount]
        ELSE [data EXCEPT !.position = new_position,
                          !.cost_basis = (IF data.avg_entry.is_some
                                          THEN data.avg_entry.value ELSE ZERO) * remaining]

\* A market event: an order book snapshot, an order book update, or an
\* event of another kind (a public trade).
MarketEvent(kind, book) == [kind |-> kind, book |-> book]

\* An instrument data that takes a book from snapshots only.
process_market_snapshots_only(data, event) ==
    IF event.kind = "Snapshot" THEN update_orderbook(data, event.book) ELSE data

\* Processor<&MarketEvent> for ArbitrageInstrumentData
process_market(data, event) ==
    IF event.kind \in {"Snapshot", "Update"} THEN update_orderbook(data, event.book)
    ELSE data

\* Decimal::to_i32 of a whole quantity: None outside i32.
ToI32(n) == IF n < I32Min \/ n > I32Max THEN None ELSE Some(n)

\* The signed quantity of a trade; the Sell arm negates.
SignedQty(trade) ==
    LET q == IF ToI32(trade.quantity).is_some THEN ToI32(trade.quantity).value ELSE 0
    IN  IF trade.side = "Buy" THEN q ELSE WrappingAdd(0, -q)

\* Processor<&AccountEvent> for ArbitrageInstrumentData, the Trade arm.
process_trade(data, trade, overflow_checks) ==
    IF trade.side = "Sell" /\ SignedQty(trade) = I32Min /\ overflow_checks THEN Panicked
    ELSE update_position(data, SignedQty(trade), trade.price, overflow_checks)

\* ArbitrageGlobalData
available_capital(global) ==
    global.kalshi_balance + global.polymarket_balance - global.total_deployed

reserve_capital(global, amount) ==
    [global EXCEPT !.total_deployed = global.total_deployed + amount]

\* A release that does not stop at zero.
release_capital_unclamped(global, amount) ==
    [global EXCEPT !.total_deployed = global.total_deployed - amount]

release_capital(global, amount) ==
    [global EXCEPT !.total_deployed =
        IF global.total_deployed - amount < ZERO THEN ZERO
        ELSE global.total_deployed - amount]

\* trade.price * trade.quantity.abs(), the quantity a whole number.
TradeValue(trade) == trade.price * (IF trade.quantity < 0 THEN -trade.quantity
                                    ELSE trade.quantity)

\* Processor<&AccountEvent> for ArbitrageGlobalData, the Trade arm.
process_trade_global(global, trade) ==
    IF trade.side = "Buy" THEN reserve_capital(global, TradeValue(trade))
    ELSE release_capital(global, TradeValue(trade))

\* The books events carry: one ask, and two asks with a bid.
StateBooks ==
    { OrderBook(<<>>, <<Level(53 * Cent, 3 * DecScale)>>),
      OrderBook(<<Level(38 * Cent, DecScale)>>,
                <<Level(40 * Cent, DecScale), Level(53 * Cent, 3 * DecScale)>>) }

\* Trades: either side, a whole quantity (one or two contracts, the ends of
\* i32, the first quantity an i32 does not hold), at 40c or 50c.
Trades ==
    [ side : {"Buy", "Sell"}, quantity : {I32Min, -1, 1, 2, I32Max, I32Max + 1},
      price : {40 * Cent, 50 * Cent} ]

\* Number of trades after which no further trade is taken.
MaxTrades == 3

StateInit ==
    /\ i_data = [ orderbook |-> None, position |-> 0, avg_entry |-> None,
                  cost_basis |-> ZERO ]
    /\ g_data = [ total_deployed |-> ZERO, kalshi_balance |-> 2 * ONE,
                  polymarket_balance |-> ONE ]
    /\ s_last = [op |-> "none", n |-> 0]
    /\ WalkIdle /\ EngineIdle /\ FeeIdle /\ DeriveIdle /\ DetectIdle /\ RiskIdle
    /\ KalshiIdle /\ RecorderIdle

StateAlive == s_last.op \notin {"panic", "wrapped"}

\* A market event reaches both processors; the global data ignores it.
SMarket ==
    /\ StateAlive
    /\ \E kind \in {"Snapshot", "Update", "Trade"}, book \in StateBooks :
         /\ i_data' = process_market(i_data, MarketEvent(kind, book))
         /\ s_last' = [ op |-> "market", event |-> MarketEvent(kind, book),
                        before |-> i_data, n |-> s_last.n ]
    /\ UNCHANGED <<g_data, walkVars, engineVars, feeVars, deriveVars, detectVars, riskVars,
                   kalshiVars, recorderVars>>

\* A trade reaches both processors.
STrade ==
    /\ StateAlive
    /\ s_last.n < MaxTrades
    /\ \E trade \in Trades, overflow_checks \in BOOLEAN :
         LET data == process_trade(i_data, trade, overflow_checks)
             wrapped == PositionOverflows(i_data, SignedQty(trade))
                            \/ (trade.side = "Sell" /\ SignedQty(trade) = I32Min)
         IN  /\ i_data' = IF data = Panicked THEN i_data ELSE data
             /\ g_data' = IF data = Panicked THEN g_data
                          ELSE process_trade_global(g_data, trade)
             /\ s_last' = [ op |-> IF data = Panicked THEN "panic"
                                   ELSE IF wrapped /\ SignedQty(trade) # 0 THEN "wrapped"
                                   ELSE "trade",
                            trade |-> trade, before |-> i_data,
                            deployed |-> g_data.total_deployed, n |-> s_last.n + 1 ]
    /\ UNCHANGED <<walkVars, engineVars, feeVars, deriveVars, detectVars, riskVars,
                   kalshiVars, recorderVars>>

\* A balance snapshot: neither processor keeps anything of it.
SBalance ==
    /\ StateAlive
    /\ s_last.op # "balance"
    /\ s_last' = [ op |-> "balance", before |-> i_data,
                   deployed |-> g_data.total_deployed, n |-> s_last.n ]
    /\ UNCHANGED <<i_data, g_data, walkVars, engineVars, feeVars, deriveVars, detectVars,
                   riskVars, kalshiVars, recorderVars>>

StateNext == SMarket \/ STrade \/ SBalance

StateSpec == StateInit /\ [][StateNext]_vars

(***************************************************************************)
(* The order book recorder (recorder.rs).                                  *)
(***************************************************************************)
\* OrderbookRecorder::new; the output directory is left out.
OrderbookRecorder(snapshot_interval) ==
    [ snapshot_interval |-> snapshot_interval, delta_counts |-> <<>>, total_written |-> 0 ]

\* delta_counts.entry(instrument).or_insert(0), then *count += 1.
CountAfter(rec, instrument) ==
    (IF instrument \in DOMAIN rec.delta_counts THEN rec.delta_counts[instrument] ELSE 0) + 1

\* A test that lets one more update pass before it writes.
should_write_after(rec, count) == count > rec.snapshot_interval

should_write(rec, count) == count >= rec.snapshot_interval

\* on_orderbook_update with write_snapshot: the write may fail, and then
\* total_written stays.
on_orderbook_update(rec, instrument, write_ok) ==
    LET count == CountAfter(rec, instrument)
        write == should_write(rec, count)
    IN  [ rec EXCEPT !.delta_counts = MapInsert(@, instrument, IF write THEN 0 ELSE count),
                     !.total_written = IF write /\ write_ok THEN @ + 1 ELSE @ ]

RecInstruments == {"A", "B"}

\* snapshot_interval values a recorder is made with.
Intervals == {1, 2, 3}

\* Updates of one instrument after which no further one is taken.
MaxUpdates == 6

RecorderInit ==
    /\ recorder \in { OrderbookRecorder(n) : n \in Intervals }
    /\ rec_seen = [i \in RecInstruments |-> 0]
    /\ rec_last = [op |-> "none"]
    /\ WalkIdle /\ EngineIdle /\ FeeIdle /\ DeriveIdle /\ DetectIdle /\ RiskIdle
    /\ KalshiIdle /\ StateIdle

\* One order book update reaches the recorder.
RUpdate ==
    /\ \E instrument \in RecInstruments, write_ok \in BOOLEAN :
         /\ rec_seen[instrument] < MaxUpdates
         /\ recorder' = on_orderbook_update(recorder, instrument, write_ok)
         /\ rec_seen' = [rec_seen EXCEPT ![instrument] = @ + 1]
         /\ rec_last' = [ op |-> "update", instrument |-> instrument,
                          triggered |-> should_write(recorder,
                                                     CountAfter(recorder, instrument)),
                          before |-> recorder ]
    /\ UNCHANGED <<walkVars, engineVars, feeVars, deriveVars, detectVars, riskVars,
                   kalshiVars, stateVars>>

RecorderNext == RUpdate

RecorderSpec == RecorderInit /\ [][RecorderNext]_vars

(***************************************************************************)
(* Properties of the depth walker, under WalkSpec.                         *)
(***************************************************************************)
Returned == w_result # NoResult

\* The cost of one contract of a level pair, from the fee model directly:
\* both prices plus each venue's fee for a single contract.
PairCost(yes_price, no_price) ==
    yes_price + no_price
        + SideFee(w_in.platforms[1], yes_price, 1, w_in.poly_fee_bps)
        + SideFee(w_in.platforms[2], no_price, 1, w_in.poly_fee_bps)

FillCost(f) ==
    PairCost(w_in.yes_asks[f.yes_idx + 1].price, w_in.no_asks[f.no_idx + 1].price)

\* C1: every level pair the walk accepts costs strictly less than 1.00 per
\* contract (prices plus per-contract fees), and a returned walk with
\* total_size > 0 has total_cost strictly below 1.00.
C1_BlendedCostBelowOne ==
    /\ \A i \in 1..Len(w_fills) : FillCost(w_fills[i]) < ONE
    /\ (Returned /\ w_result.total_size > 0) => w_result.total_cost < ONE

\* A walk over two levels on a side has returned a fill of three contracts.
C1_Witness ==
    /\ Returned
    /\ w_result.total_size >= 3
    /\ Len(w_fills) >= 2
    /\ w_in.platforms = <<Polymarket, Kalshi>>

\* Whole contracts a level offers.
Whole(l) == ToU32(l.amount)

\* The most contracts fillable 1:1 best-first from level yi of the YES
\* ladder and level ni of the NO ladder on, with yr and nr whole contracts
\* left at those levels, every filled pair costing less than 1.00.
RECURSIVE BestFill(_, _, _, _)
BestFill(yi, ni, yr, nr) ==
    IF yi > Len(w_in.yes_asks) \/ ni > Len(w_in.no_asks) THEN 0
    ELSE IF yr = 0
         THEN BestFill(yi + 1, ni,
                  IF yi + 1 <= Len(w_in.yes_asks) THEN Whole(w_in.yes_asks[yi + 1]) ELSE 0, nr)
    ELSE IF nr = 0
         THEN BestFill(yi, ni + 1, yr,
                  IF ni + 1 <= Len(w_in.no_asks) THEN Whole(w_in.no_asks[ni + 1]) ELSE 0)
    ELSE IF PairCost(w_in.yes_asks[yi].price, w_in.no_asks[ni].price) >= ONE THEN 0
    ELSE LET n == IF yr <= nr THEN yr ELSE nr
         IN  n + BestFill(yi, ni, yr - n, nr - n)

MaxJointFill ==
    BestFill(1, 1,
        IF Len(w_in.yes_asks) > 0 THEN Whole(w_in.yes_asks[1]) ELSE 0,
        IF Len(w_in.no_asks) > 0 THEN Whole(w_in.no_asks[1]) ELSE 0)

\* C3: the total_size the walk returns is the largest whole number of
\* contracts fillable 1:1 best-first from the two ascending ladders with
\* every filled level pair costing less than 1.00.
C3_TotalSizeIsMaximal == Returned => w_result.total_size = MaxJointFill

\* The walk never claims more than the best fill.
C3_NeverAboveMaximal == Returned => w_result.total_size <= MaxJointFill

RECURSIVE SumSizes(_, _, _)
\* The contracts the fills took from level idx of a side ("yes" or "no").
SumSizes(fills, side, idx) ==
    IF fills = <<>> THEN 0
    ELSE (IF (IF side = "yes" THEN Head(fills).yes_idx ELSE Head(fills).no_idx) = idx
          THEN Head(fills).size ELSE 0)
         + SumSizes(Tail(fills), side, idx)

RECURSIVE SumAmounts(_)
SumAmounts(asks) == IF asks = <<>> THEN ZERO ELSE Head(asks).amount + SumAmounts(Tail(asks))

RECURSIVE SumFills(_)
SumFills(fills) == IF fills = <<>> THEN 0 ELSE Head(fills).size + SumFills(Tail(fills))

\* C6: each fill is the whole part of min(yes_remaining, no_remaining); no
\* level gives more contracts than its amount, and total_size exceeds the
\* total amount of neither ladder.
C6_FillsTruncateDown ==
    /\ \A i \in 1..Len(w_fills) :
         LET f == w_fills[i]
             least == DecMin(f.yes_remaining, f.no_remaining)
         IN  DecFrom(f.size) <= least /\ least < DecFrom(f.size + 1)
    /\ \A j \in 1..Len(w_in.yes_asks) :
         DecFrom(SumSizes(w_fills, "yes", j - 1)) <= w_in.yes_asks[j].amount
    /\ \A j \in 1..Len(w_in.no_asks) :
         DecFrom(SumSizes(w_fills, "no", j - 1)) <= w_in.no_asks[j].amount
    /\ w_st.total_size = SumFills(w_fills)
    /\ DecFrom(w_st.total_size) <= SumAmounts(w_in.yes_asks)
    /\ DecFrom(w_st.total_size) <= SumAmounts(w_in.no_asks)
    /\ Returned => w_result.total_size = w_st.total_size

\* A fill of one contract was taken where 1.5 contracts were on offer.
C6_Witness ==
    /\ Returned
    /\ \E i \in 1..Len(w_fills) :
         /\ w_fills[i].size = 1
         /\ DecMin(w_fills[i].yes_remaining, w_fills[i].no_remaining) = 3 * (DecScale \div 2)

\* The walks the claim calls degenerate: an empty ladder, a first level of
\* less than one whole contract, or a first level pair costing 1.00 or more.
Degenerate ==
    \/ Len(w_in.yes_asks) = 0
    \/ Len(w_in.no_asks) = 0
    \/ w_in.yes_asks[1].amount < ONE
    \/ w_in.no_asks[1].amount < ONE
    \/ PairCost(w_in.yes_asks[1].price, w_in.no_asks[1].price) >= ONE

ZeroResult ==
    [ total_size |-> 0, total_profit |-> ZERO, avg_yes_price |-> ZERO,
      avg_no_price |-> ZERO, total_fees |-> ZERO, total_cost |-> ZERO ]

\* C7: a degenerate walk returns total_size, total_profit, total_fees, both
\* averages and total_cost all exactly zero.
C7_DegenerateWalkIsZero == (Returned /\ Degenerate) => w_result = ZeroResult

\* A walk whose first level pair costs exactly 1.00 before fees has returned.
C7_Witness ==
    /\ Returned
    /\ Len(w_in.yes_asks) > 0 /\ Len(w_in.no_asks) > 0
    /\ w_in.yes_asks[1].amount >= ONE /\ w_in.no_asks[1].amount >= ONE
    /\ w_in.yes_asks[1].price + w_in.no_asks[1].price = ONE

(***************************************************************************)
(* Properties of the derivation, under DeriveSpec.                         *)
(***************************************************************************)
StrictlyDescending(l) == \A i \in 1..(Len(l) - 1) : l[i].price > l[i + 1].price

StrictlyAscending(l) == \A i \in 1..(Len(l) - 1) : l[i].price < l[i + 1].price

\* C8: the derived ladder has the bids' length and order, level i priced at
\* 1 - bid[i].price with bid[i]'s size; strictly descending bids give a
\* strictly ascending derived ladder.
C8_DeriveLevelByLevel ==
    d_no_asks # NoLadder =>
        /\ Len(d_no_asks) = Len(d_bids)
        /\ \A i \in 1..Len(d_bids) :
             /\ d_no_asks[i].price + d_bids[i].price = ONE
             /\ d_no_asks[i].amount = d_bids[i].amount
        /\ StrictlyDescending(d_bids) => StrictlyAscending(d_no_asks)

\* A strictly descending two-level bid ladder has been derived.
C8_Witness ==
    /\ d_no_asks # NoLadder
    /\ Len(d_bids) = 2
    /\ StrictlyDescending(d_bids)
    /\ d_no_asks[1].price = 45 * Cent

\* C9: the derivation applied twice gives back the ladder: same prices,
\* same sizes, same order.
C9_DeriveRoundTrip == d_back # NoLadder => d_back = d_bids

\* A two-level ladder with a fractional size has been derived twice.
C9_Witness ==
    /\ d_back # NoLadder
    /\ Len(d_bids) = 2
    /\ d_bids[1].amount = DecScale \div 2
    /\ d_no_asks # d_bids

(***************************************************************************)
(* Properties of the fee model, under FeeSpec.                             *)
(***************************************************************************)
\* C10: the Kalshi taker fee is the same at p and 1 - p, is nowhere higher
\* than at p = 0.50 for n > 0, and is zero at n = 0, as are the Polymarket
\* taker fee and maker rebate.
C10_KalshiFeeSymmetricPeaked ==
    f_out # NoResult =>
        /\ f_out.kalshi_taker = f_out.kalshi_taker_mirror
        /\ f_in.contracts > 0 => f_out.kalshi_taker_half >= f_out.kalshi_taker
        /\ f_in.contracts = 0 =>
             /\ f_out.kalshi_taker = ZERO
             /\ f_out.polymarket_taker = ZERO
             /\ f_out.polymarket_rebate = ZERO

\* The fee of three contracts at 40c: 0.07 * 3 * 0.40 * 0.60 = 0.0504.
C10_Witness ==
    /\ f_out # NoResult
    /\ f_in.price = 40 * Cent
    /\ f_in.contracts = 3
    /\ f_out.kalshi_taker = 504 * (DecScale \div 10000)
    /\ f_out.kalshi_taker_half > f_out.kalshi_taker

(***************************************************************************)
(* Properties of the opportunity builder and of emission, under Spec.      *)
(***************************************************************************)
Abs(x) == IF x >= 0 THEN x ELSE -x

\* What an opportunity's parts add up to: both legs at their average
\* prices, the fees and the profit.
Payout(opp) ==
    opp.avg_yes_price * opp.max_contracts + opp.avg_no_price * opp.max_contracts
        + opp.total_fees + opp.expected_profit

\* C2 as stated: the parts of every opportunity add up to exactly
\* max_contracts dollars.
C2_PayoutConservationExact ==
    \A i \in 1..Len(opportunities) :
        Payout(opportunities[i]) = DecFrom(opportunities[i].max_contracts)

\* C2, amended: the parts add up to max_contracts dollars to within the
\* rounding of the two average prices, max_contracts units of the last
\* decimal place kept; exactly when max_contracts is 1.
C2_PayoutConservationRounded ==
    \A i \in 1..Len(opportunities) :
        LET opp == opportunities[i]
        IN  /\ Abs(Payout(opp) - DecFrom(opp.max_contracts)) <= opp.max_contracts
            /\ opp.max_contracts = 1 => Payout(opp) = DecFrom(1)

\* An opportunity of three contracts over two price levels whose average
\* YES price is a rounded quotient.
C2_Witness ==
    \E i \in 1..Len(opportunities) :
        /\ opportunities[i].max_contracts = 3
        /\ opportunities[i].avg_yes_price * 3 # 40 * Cent + 2 * (53 * Cent)
        /\ opportunities[i].direction = YesPolyNoKalshi
        /\ instruments[polymarket_yes("0xyes")].asks
             = <<Level(40 * Cent, DecScale), Level(53 * Cent, 3 * DecScale)>>

\* The opportunities of the cycle that pass the filters.
ValidNow == ValidOpps(config, opportunities)

Resolved(opp) ==
    opp.yes_side.instrument \in instrument_index /\ opp.no_side.instrument \in instrument_index

\* C4: the open requests come in pairs, YES leg then NO leg of one valid
\* opportunity with both legs in the instrument index, of equal quantity;
\* an opportunity with a leg missing from the index has no order at all.
C4_HedgedEmission ==
    /\ Len(opens) % 2 = 0
    /\ Len(opens) = 2 * Cardinality({ i \in 1..Len(ValidNow) : Resolved(ValidNow[i]) })
    /\ \A k \in 1..(Len(opens) \div 2) :
         /\ opens[2 * k - 1].quantity = opens[2 * k].quantity
         /\ \E i \in 1..Len(ValidNow) :
              /\ Resolved(ValidNow[i])
              /\ opens[2 * k - 1].instrument = ValidNow[i].yes_side.instrument
              /\ opens[2 * k].instrument = ValidNow[i].no_side.instrument
              /\ opens[2 * k].quantity = DecFrom(ValidNow[i].max_contracts)
    /\ \A i \in 1..Len(ValidNow) :
         ~Resolved(ValidNow[i]) =>
             \A j \in 1..Len(opens) :
                 /\ opens[j].instrument # ValidNow[i].yes_side.instrument
                 /\ opens[j].instrument # ValidNow[i].no_side.instrument

\* Two opportunities passed the filters, one with its NO leg missing from
\* the index, and the cycle emitted the pair of the other.
C4_Witness ==
    /\ pc = "emitted"
    /\ Len(ValidNow) = 2
    /\ \E i \in 1..2 :
         /\ ValidNow[i].yes_side.instrument \in instrument_index
         /\ ValidNow[i].no_side.instrument \notin instrument_index
    /\ Len(opens) = 2

\* The walk an opportunity of the held cycle came from.
WalkOf(opp) ==
    IF opp.direction = YesPolyNoKalshi
    THEN Direction1Walk(opp.pair, instruments[polymarket_yes(opp.pair.polymarket_yes_token)],
                        instruments[kalshi_yes(opp.pair.kalshi_ticker)], DefaultPolyFeeBps)
    ELSE Direction2Walk(opp.pair, instruments[polymarket_yes(opp.pair.polymarket_yes_token)],
                        instruments[kalshi_yes(opp.pair.kalshi_ticker)], DefaultPolyFeeBps)

\* C5: every opportunity comes from a walk of its direction with
\* total_size > 0 and total_profit > 0; it has max_contracts > 0,
\* expected_profit > 0 and total_cost < 1.00, both legs sized max_contracts
\* and priced at the walk's average prices.
C5_OpportunityOnlyIfProfitable ==
    \A i \in 1..Len(opportunities) :
        LET opp == opportunities[i]
            result == WalkOf(opp)
        IN  /\ result.total_size > 0 /\ result.total_profit > ZERO
            /\ opp.max_contracts = result.total_size
            /\ opp.max_contracts > 0
            /\ opp.expected_profit > ZERO
            /\ opp.total_cost < ONE
            /\ opp.yes_side.size = opp.max_contracts
            /\ opp.no_side.size = opp.max_contracts
            /\ opp.yes_side.price = result.avg_yes_price
            /\ opp.no_side.price = result.avg_no_price
            /\ opp.avg_yes_price = result.avg_yes_price
            /\ opp.avg_no_price = result.avg_no_price

\* A cycle found one direction profitable while the other direction's walk
\* stopped at its first level pair.
C5_Witness ==
    /\ pc = "emitted"
    /\ Len(opportunities) = 1
    /\ opportunities[1].direction = YesKalshiNoPoly
    /\ instruments[kalshi_yes("KXTEST")] # NoBook
    /\ instruments[polymarket_yes("0xyes")] # NoBook
    /\ Len(instruments[polymarket_yes("0xyes")].asks) > 0
    /\ Len(instruments[kalshi_yes("KXTEST")].bids) > 0
    /\ ~opportunities[1].pair.inverse

(***************************************************************************)
(* Properties of the two directions, under Spec.                           *)
(***************************************************************************)
\* The YES books of an opportunity's pair as the cycle saw them.
PolyYesBookOf(opp) == instruments[polymarket_yes(opp.pair.polymarket_yes_token)]

KalshiYesBookOf(opp) == instruments[kalshi_yes(opp.pair.kalshi_ticker)]

\* The opportunity carries the figures of a walk result.
CarriesWalk(opp, result) ==
    /\ opp.max_contracts = result.total_size
    /\ opp.total_cost = result.total_cost
    /\ opp.avg_yes_price = result.avg_yes_price
    /\ opp.avg_no_price = result.avg_no_price
    /\ opp.total_fees = result.total_fees
    /\ opp.expected_profit = result.total_profit

\* The leg is on the venue, market and outcome given.
LegIs(side, exchange, market_id, outcome) ==
    /\ side.exchange = exchange
    /\ side.instrument = [exchange |-> exchange, market_id |-> market_id, outcome |-> outcome]
    /\ side.outcome = outcome

\* C11: for a non-inverse pair, Direction 1 walks Polymarket's YES asks
\* against the NO asks derived from Kalshi's YES bids, with legs
\* (Polymarket, yes_token, Yes) and (Kalshi, ticker, No); Direction 2 walks
\* Kalshi's YES asks against the NO asks derived from Polymarket's YES bids,
\* with legs (Kalshi, ticker, Yes) and (Polymarket, no_token, No).  Each
\* leg's fee is that of its own venue.
C11_NonInverseDirections ==
    \A i \in 1..Len(opportunities) :
        LET opp == opportunities[i]
            poly == PolyYesBookOf(opp)
            kalshi == KalshiYesBookOf(opp)
            n == opp.max_contracts
        IN  ~opp.pair.inverse =>
            IF opp.direction = YesPolyNoKalshi
            THEN /\ CarriesWalk(opp, walk_orderbook_levels(poly.asks, derive_no_asks(kalshi),
                                         Polymarket, Kalshi, DefaultPolyFeeBps))
                 /\ LegIs(opp.yes_side, Polymarket, opp.pair.polymarket_yes_token, Yes)
                 /\ LegIs(opp.no_side, Kalshi, opp.pair.kalshi_ticker, No)
                 /\ (Len(poly.asks) = 1 /\ Len(kalshi.bids) = 1) =>
                        opp.total_fees =
                            polymarket_taker_fee(poly.asks[1].price, n, DefaultPolyFeeBps)
                            + kalshi_taker_fee(ONE - kalshi.bids[1].price, n)
            ELSE /\ opp.direction = YesKalshiNoPoly
                 /\ CarriesWalk(opp, walk_orderbook_levels(kalshi.asks, derive_no_asks(poly),
                                         Kalshi, Polymarket, DefaultPolyFeeBps))
                 /\ LegIs(opp.yes_side, Kalshi, opp.pair.kalshi_ticker, Yes)
                 /\ LegIs(opp.no_side, Polymarket, opp.pair.polymarket_no_token, No)
                 /\ (Len(kalshi.asks) = 1 /\ Len(poly.bids) = 1) =>
                        opp.total_fees =
                            kalshi_taker_fee(kalshi.asks[1].price, n)
                            + polymarket_taker_fee(ONE - poly.bids[1].price, n,
                                                   DefaultPolyFeeBps)

\* A non-inverse pair gave both directions, the first of three contracts.
C11_Witness ==
    /\ pc = "emitted"
    /\ Len(opportunities) = 2
    /\ ~opportunities[1].pair.inverse
    /\ opportunities[1].direction = YesPolyNoKalshi
    /\ opportunities[1].max_contracts = 3
    /\ opportunities[2].direction = YesKalshiNoPoly

\* C12: for an inverse pair, Direction 1 walks Polymarket's YES asks against
\* Kalshi's own YES asks and its NO leg is the Kalshi YES contract;
\* Direction 2 walks the NO asks derived from Kalshi's YES bids against the
\* NO asks derived from Polymarket's YES bids, with legs Kalshi NO and
\* Polymarket NO.  The direction tags are those of a non-inverse pair.
C12_InverseDirections ==
    \A i \in 1..Len(opportunities) :
        LET opp == opportunities[i]
            poly == PolyYesBookOf(opp)
            kalshi == KalshiYesBookOf(opp)
        IN  opp.pair.inverse =>
            IF opp.direction = YesPolyNoKalshi
            THEN /\ CarriesWalk(opp, walk_orderbook_levels(poly.asks, kalshi.asks,
                                         Polymarket, Kalshi, DefaultPolyFeeBps))
                 /\ LegIs(opp.yes_side, Polymarket, opp.pair.polymarket_yes_token, Yes)
                 /\ LegIs(opp.no_side, Kalshi, opp.pair.kalshi_ticker, Yes)
            ELSE /\ opp.direction = YesKalshiNoPoly
                 /\ CarriesWalk(opp, walk_orderbook_levels(derive_no_asks(kalshi),
                                         derive_no_asks(poly),
                                         Kalshi, Polymarket, DefaultPolyFeeBps))
                 /\ LegIs(opp.yes_side, Kalshi, opp.pair.kalshi_ticker, No)
                 /\ LegIs(opp.no_side, Polymarket, opp.pair.polymarket_no_token, No)

\* An inverse pair gave both directions, the second from two derived
\* ladders while Kalshi's own asks gave the first.
C12_Witness ==
    /\ pc = "emitted"
    /\ Len(opportunities) = 2
    /\ opportunities[1].pair.inverse
    /\ opportunities[1].direction = YesPolyNoKalshi
    /\ opportunities[1].no_side.price = 45 * Cent
    /\ opportunities[2].direction = YesKalshiNoPoly
    /\ opportunities[2].yes_side.outcome = No
    /\ Len(KalshiYesBookOf(opportunities[2]).bids) = 2

\* The opportunities of a list that carry a direction tag.
OfDirection(opps, direction) == { i \in 1..Len(opps) : opps[i].direction = direction }

\* C13: a cycle yields at most two opportunities for the pair, at most one
\* per direction, Direction 1 before Direction 2; when the pair is evaluated
\* with both YES books present, each direction's opportunity is there
\* exactly when that direction's own walk has size > 0 and profit > 0.
C13_DirectionsIndependent ==
    pc = "emitted" =>
        LET pair == pairs[1]
            poly == instruments[polymarket_yes(pair.polymarket_yes_token)]
            kalshi == instruments[kalshi_yes(pair.kalshi_ticker)]
            first == OfDirection(opportunities, YesPolyNoKalshi)
            second == OfDirection(opportunities, YesKalshiNoPoly)
        IN  /\ Len(opportunities) <= 2
            /\ Cardinality(first) <= 1
            /\ Cardinality(second) <= 1
            /\ \A i \in first : \A j \in second : i < j
            /\ (Monitored(pair, config, now) /\ poly # NoBook /\ kalshi # NoBook) =>
                 LET result1 == Direction1Walk(pair, poly, kalshi, DefaultPolyFeeBps)
                     result2 == Direction2Walk(pair, poly, kalshi, DefaultPolyFeeBps)
                 IN  /\ first # {} <=> (result1.total_size > 0 /\ result1.total_profit > ZERO)
                     /\ second # {} <=> (result2.total_size > 0 /\ result2.total_profit > ZERO)

\* Both directions of the pair qualified in one cycle, with different
\* profits.
C13_Witness ==
    /\ pc = "emitted"
    /\ Len(opportunities) = 2
    /\ opportunities[1].direction = YesPolyNoKalshi
    /\ opportunities[2].direction = YesKalshiNoPoly
    /\ opportunities[1].expected_profit # opportunities[2].expected_profit

(***************************************************************************)
(* Properties of detection, under DetectSpec.                              *)
(***************************************************************************)
Detected == dt_first # NoList

\* The opportunities of a list that belong to a pair, in order.
OppsOf(opps, pair) == SelectSeq(opps, LAMBDA opp : opp.pair = pair)

PolyYesKeyOf(pair) ==
    [exchange |-> Polymarket, market_id |-> pair.polymarket_yes_token, outcome |-> Yes]

KalshiYesKeyOf(pair) ==
    [exchange |-> Kalshi, market_id |-> pair.kalshi_ticker, outcome |-> Yes]

HasBothBooks(pair) ==
    PolyYesKeyOf(pair) \in DOMAIN dt_in.books /\ KalshiYesKeyOf(pair) \in DOMAIN dt_in.books

\* The book map cut down to the two YES books of a pair.
OwnBooks(pair) ==
    [ k \in {PolyYesKeyOf(pair), KalshiYesKeyOf(pair)} \cap DOMAIN dt_in.books |->
        dt_in.books[k] ]

\* What detection gives for a pair monitored alone, with only its own books.
Alone(pair) ==
    detect_opportunities(<<pair>>, DetectConfig, OwnBooks(pair), DefaultPolyFeeBps, dt_in.now)

\* C14: a pair whose Polymarket YES book or Kalshi YES book is missing from
\* the map gets no opportunity, whatever its other book holds, and the
\* opportunities of the other pair are what that pair gets on its own.
C14_MissingBookNoOpportunity ==
    Detected =>
        \A k \in 1..Len(dt_in.pairs) :
            LET pair == dt_in.pairs[k]
            IN  /\ ~HasBothBooks(pair) => OppsOf(dt_first, pair) = <<>>
                /\ HasBothBooks(pair) => OppsOf(dt_first, pair) = Alone(pair)

\* The first pair has a Polymarket YES book but no Kalshi YES book, and the
\* second pair, with both books, got its opportunities.
C14_Witness ==
    /\ Detected
    /\ PolyYesKeyOf(dt_in.pairs[1]) \in DOMAIN dt_in.books
    /\ KalshiYesKeyOf(dt_in.pairs[1]) \notin DOMAIN dt_in.books
    /\ Len(dt_in.books[PolyYesKeyOf(dt_in.pairs[1])].bids) = 1
    /\ OppsOf(dt_first, dt_in.pairs[2]) # <<>>
    /\ dt_first = OppsOf(dt_first, dt_in.pairs[2])

\* What the builder gives for a pair over the drawn book map.
Built(pair) == check_pair_for_arbitrage(pair, dt_in.books, DefaultPolyFeeBps)

\* C15: a pair with expiry <= now gets no opportunity, whatever its books
\* hold.
C15_ExpiredPairSkipped ==
    Detected =>
        \A k \in 1..Len(dt_in.pairs) :
            dt_in.pairs[k].expiry <= dt_in.now => OppsOf(dt_first, dt_in.pairs[k]) = <<>>

\* A pair expiring at this very instant, with books profitable in both
\* directions, has been through detection with no expiry-distance filter.
C15_Witness ==
    /\ Detected
    /\ dt_in.pairs[1].expiry = dt_in.now
    /\ ~dt_in.max_days_to_expiry.is_some
    /\ Len(Built(dt_in.pairs[1])) = 2

\* Time left to a pair's expiry, in half days.
Remaining(pair) == pair.expiry - dt_in.now

\* The filter in the code's terms: a pair over the maximum of whole days is
\* skipped; a pair not expired and within it (or with no maximum set) gets
\* what the builder gives it.
FilterByWholeDays ==
    \A k \in 1..Len(dt_in.pairs) :
        LET pair == dt_in.pairs[k]
            max == dt_in.max_days_to_expiry
        IN  /\ (max.is_some /\ days_to_expiry(pair, dt_in.now) > max.value) =>
                   OppsOf(dt_first, pair) = <<>>
            /\ (Remaining(pair) > 0
                  /\ (max.is_some => days_to_expiry(pair, dt_in.now) <= max.value)) =>
                   OppsOf(dt_first, pair) = Built(pair)

\* C16 as stated: the filter by whole days, and no pair with more time left
\* than max_days_to_expiry days is evaluated.
C16_NoPairBeyondMaxDays ==
    Detected =>
        /\ FilterByWholeDays
        /\ \A k \in 1..Len(dt_in.pairs) :
             LET pair == dt_in.pairs[k]
                 max == dt_in.max_days_to_expiry
             IN  (max.is_some /\ Remaining(pair) > max.value * DayLen) =>
                     OppsOf(dt_first, pair) = <<>>

\* C16, amended: the filter by whole days; time left counts in whole days,
\* the rest dropped, so a pair is skipped from max_days_to_expiry + 1 days
\* left on and evaluated with any time left short of that.
C16_FilterByWholeDays ==
    Detected =>
        /\ FilterByWholeDays
        /\ \A k \in 1..Len(dt_in.pairs) :
             LET pair == dt_in.pairs[k]
                 max == dt_in.max_days_to_expiry
             IN  /\ (max.is_some /\ Remaining(pair) >= (max.value + 1) * DayLen) =>
                        OppsOf(dt_first, pair) = <<>>
                 /\ (max.is_some /\ Remaining(pair) > 0
                       /\ Remaining(pair) < (max.value + 1) * DayLen) =>
                        OppsOf(dt_first, pair) = Built(pair)

\* With a maximum of 0 days, a pair half a day from expiry was evaluated and
\* a pair a day or more from expiry, with books as good, was skipped.
C16_Witness ==
    /\ Detected
    /\ dt_in.max_days_to_expiry = Some(0)
    /\ Remaining(dt_in.pairs[1]) = 1
    /\ OppsOf(dt_first, dt_in.pairs[1]) # <<>>
    /\ Remaining(dt_in.pairs[2]) >= DayLen
    /\ Built(dt_in.pairs[2]) # <<>>

(***************************************************************************)
(* Properties of filtering and emission, under Spec.                       *)
(***************************************************************************)
\* The minimum order value configured for a venue.
VenueMinimum(exchange) ==
    IF exchange = Kalshi THEN config.min_order_value.kalshi
    ELSE config.min_order_value.polymarket

\* The four filters, each stated on the fields of the opportunity itself.
PassesFilters(opp) ==
    /\ DecDiv(opp.expected_profit, opp.max_contracts) >= config.min_spread_threshold
    /\ opp.expected_profit > ZERO
    /\ opp.max_contracts <= config.max_position_per_market
    /\ opp.yes_side.price * opp.yes_side.size >= VenueMinimum(opp.yes_side.exchange)
    /\ opp.no_side.price * opp.no_side.size >= VenueMinimum(opp.no_side.exchange)

\* The open requests hold the order pair of the opportunity.
HasOrderPair(opp) ==
    \E k \in 1..(Len(opens) \div 2) :
        /\ opens[2 * k - 1].instrument = opp.yes_side.instrument
        /\ opens[2 * k].instrument = opp.no_side.instrument

\* No open request is addressed to either leg of the opportunity.
HasNoOrder(opp) ==
    \A j \in 1..Len(opens) :
        /\ opens[j].instrument # opp.yes_side.instrument
        /\ opens[j].instrument # opp.no_side.instrument

C18_PositionLimitDrops ==
    pc = "emitted" =>
        /\ \A i \in 1..Len(opportunities) :
             opportunities[i].max_contracts > config.max_position_per_market =>
                 HasNoOrder(opportunities[i])
        /\ \A j \in 1..Len(opens) :
             /\ opens[j].quantity = DecFrom(ToU32(opens[j].quantity))
             /\ ToU32(opens[j].quantity) <= config.max_position_per_market

\* An opportunity of three contracts was detected under a limit of two and
\* left out, while the one-contract opportunity of the same cycle was
\* emitted.
C18_Witness ==
    /\ pc = "emitted"
    /\ config.max_position_per_market = 2
    /\ Len(opportunities) = 2
    /\ opportunities[1].max_contracts = 3
    /\ opportunities[2].max_contracts = 1
    /\ Len(opens) = 2
    /\ opens[1].quantity = DecFrom(1)

\* C19: every open request is a Buy, Limit, ImmediateOrCancel order; the
\* requests come as the YES-leg and NO-leg orders of a valid opportunity,
\* each addressed to its leg's exchange and instrument, priced at
\* avg_yes_price and avg_no_price, with quantity max_contracts.  No cancel
\* request is emitted.
C19_OrdersAreBuyLimitIoc ==
    /\ cancels = <<>>
    /\ \A j \in 1..Len(opens) :
         /\ opens[j].side = "Buy"
         /\ opens[j].kind = "Limit"
         /\ opens[j].time_in_force = "ImmediateOrCancel"
    /\ \A k \in 1..(Len(opens) \div 2) :
         \E i \in 1..Len(opportunities) :
            LET opp == opportunities[i]
                yes_order == opens[2 * k - 1]
                no_order == opens[2 * k]
            IN  /\ yes_order.exchange = opp.yes_side.exchange
                /\ yes_order.instrument = opp.yes_side.instrument
                /\ yes_order.price = opp.avg_yes_price
                /\ yes_order.quantity = DecFrom(opp.max_contracts)
                /\ no_order.exchange = opp.no_side.exchange
                /\ no_order.instrument = opp.no_side.instrument
                /\ no_order.price = opp.avg_no_price
                /\ no_order.quantity = DecFrom(opp.max_contracts)

\* A cycle emitted the order pairs of both directions, four orders in all,
\* the legs of the first at different prices.
C19_Witness ==
    /\ pc = "emitted"
    /\ Len(opens) = 4
    /\ cancels = <<>>
    /\ opens[1].price # opens[2].price
    /\ opens[1].exchange = Polymarket
    /\ opens[2].exchange = Kalshi

Checked == r_out # NoResult

\* The open requests in a list of refusals.
RefusedItems == [ i \in 1..Len(r_out.refused_opens) |-> r_out.refused_opens[i].item ]

InList(order, list) == \E j \in 1..Len(list) : list[j] = order

\* The two bounds of an open request, on its own price and quantity.
WithinBounds(order) ==
    /\ r_in.total_deployed + order.price * ToU32(order.quantity)
            <= r_in.manager.max_total_capital
    /\ order.price * ToU32(order.quantity) <= r_in.manager.max_order_notional

\* C21: check approves every cancel request and refuses none; every open
\* request is in exactly one of the approved and refused lists; it is approved
\* iff total_deployed + price*quantity <= max_total_capital and
\* price*quantity <= max_order_notional; every refused open carries a
\* non-empty reason.
C21_CheckContract ==
    Checked =>
        /\ r_out.approved_cancels = r_in.cancels
        /\ r_out.refused_cancels = <<>>
        /\ Len(r_out.approved_opens) + Len(r_out.refused_opens) = Len(r_in.opens)
        /\ \A i \in 1..Len(r_in.opens) :
             /\ InList(r_in.opens[i], r_out.approved_opens) <=> WithinBounds(r_in.opens[i])
             /\ InList(r_in.opens[i], RefusedItems) <=> ~WithinBounds(r_in.opens[i])
        /\ \A j \in 1..Len(r_out.refused_opens) : r_out.refused_opens[j].reason # ""

\* A batch with cancels, an open exactly at the per-order maximum (approved)
\* and refused opens.
C21_Witness ==
    /\ Checked
    /\ r_in.cancels # <<>>
    /\ r_out.refused_opens # <<>>
    /\ \E j \in 1..Len(r_out.approved_opens) :
         r_out.approved_opens[j].price * ToU32(r_out.approved_opens[j].quantity)
             = r_in.manager.max_order_notional

RECURSIVE SumNotional(_)
SumNotional(orders) ==
    IF orders = <<>> THEN 0
    ELSE Head(orders).price * ToU32(Head(orders).quantity) + SumNotional(Tail(orders))

\* C22: for any batch of opens passed to one check call, total_deployed plus
\* the sum of the notionals of the opens it approves does not exceed
\* max_total_capital.
C22_BatchWithinTotalCapital ==
    Checked =>
        r_in.total_deployed + SumNotional(r_out.approved_opens)
            <= r_in.manager.max_total_capital

\* C30: of the two order requests emitted for one opportunity, check approves
\* both or refuses both.
C30_BothLegsOrNone ==
    Checked =>
        \A k \in 1..(Len(r_in.opens) \div 2) :
            InList(r_in.opens[2 * k - 1], r_out.approved_opens)
                <=> InList(r_in.opens[2 * k], r_out.approved_opens)

(***************************************************************************)
(* Claims about the Kalshi order book.                                     *)
(***************************************************************************)
Sides == {"yes", "no"}

NoZeroLevel ==
    \A side \in Sides : \A p \in DOMAIN k_book[side] : k_book[side][p] # 0

\* What the claim has a delta leave at the addressed level.
DeltaPost(side, price, delta) ==
    LET current == IF price \in DOMAIN k_book[side] THEN k_book[side][price] ELSE 0
        result == current + delta
    IN  IF result <= 0 THEN price \notin DOMAIN k_book'[side]
        ELSE price \in DOMAIN k_book'[side] /\ k_book'[side][price] = result

\* C23: apply_delta adds the signed delta to the current quantity of the
\* addressed side's price level (0 if absent); a result <= 0 removes the
\* level, otherwise the level holds exactly the result; and no stored level
\* ever has quantity 0.
C23_DeltaSemantics ==
    /\ [][ \A side \in Sides, price \in KalshiCents, delta \in DeltaAmounts :
              KDelta(side, price, delta) => DeltaPost(side, price, delta) ]_vars
    /\ []NoZeroLevel

\* The same for quantities and results that an i32 holds.
DeltaSemanticsWithinI32 ==
    [][ \A side \in Sides, price \in KalshiCents, delta \in DeltaAmounts :
          LET current == IF price \in DOMAIN k_book[side] THEN k_book[side][price] ELSE 0
          IN  KDelta(side, price, delta) /\ current <= I32Max
                  /\ current + delta <= I32Max
              => DeltaPost(side, price, delta) ]_vars

\* The level a query reads: the highest-priced one of a side.
IsHighest(side, p) == p \in DOMAIN k_book[side] /\ \A q \in DOMAIN k_book[side] : q <= p

\* C24: best_yes_bid is the highest-priced YES level; best_yes_ask has price
\* 100 - (highest-priced NO level) and that level's quantity; best_no_bid is
\* the highest-priced NO level; best_no_ask has price 100 - (highest-priced
\* YES level); each query is None exactly when the side it reads is empty.
C24_BestPrices ==
    /\ best_yes_bid(k_book) = None <=> DOMAIN k_book.yes = {}
    /\ best_no_ask(k_book) = None <=> DOMAIN k_book.yes = {}
    /\ best_no_bid(k_book) = None <=> DOMAIN k_book.no = {}
    /\ best_yes_ask(k_book) = None <=> DOMAIN k_book.no = {}
    /\ \A p \in KalshiCents :
         /\ IsHighest("yes", p) =>
               /\ best_yes_bid(k_book) = Some([price |-> p, amount |-> k_book.yes[p]])
               /\ best_no_ask(k_book).is_some
               /\ best_no_ask(k_book).value.price = 100 - p
         /\ IsHighest("no", p) =>
               /\ best_no_bid(k_book) = Some([price |-> p, amount |-> k_book.no[p]])
               /\ best_yes_ask(k_book) = Some([price |-> 100 - p, amount |-> k_book.no[p]])

\* Two levels on each side, reached through a delta.
C24_Witness ==
    /\ k_last.op = "delta"
    /\ DOMAIN k_book.yes = KalshiCents
    /\ DOMAIN k_book.no = KalshiCents
    /\ k_book.no[40] # k_book.no[60]

\* clear leaves both sides empty, and every best-price query None.
ClearLeavesNothing ==
    k_last.op = "clear" =>
        /\ DOMAIN k_book.yes = {} /\ DOMAIN k_book.no = {}
        /\ best_yes_bid(k_book) = None /\ best_yes_ask(k_book) = None
        /\ best_no_bid(k_book) = None /\ best_no_ask(k_book) = None

(***************************************************************************)
(* Claims about market lifecycle events.                                   *)
(***************************************************************************)
\* C25: after a lifecycle event of the Kalshi market, and until an orderbook
\* event with levels arrives for its instrument, the instrument's stored book
\* is the empty one and every evaluation cycle produces no opportunity (and
\* so no order), for inverse and non-inverse pairs alike.
C25_NoOpportunityAfterLifecycle ==
    closed =>
        /\ \A i \in 1..Len(pairs) :
             instruments[kalshi_yes(pairs[i].kalshi_ticker)] = EmptyBook
        /\ pc = "emitted" => opportunities = <<>> /\ opens = <<>>

\* A cycle run after the lifecycle event while Polymarket quotes both sides.
C25_Witness ==
    /\ closed
    /\ pc = "emitted"
    /\ instruments[polymarket_yes("0xyes")] # NoBook
    /\ instruments[polymarket_yes("0xyes")].asks # <<>>
    /\ instruments[polymarket_yes("0xyes")].bids # <<>>

(***************************************************************************)
(* Claims about the fees of a walk, under WalkSpec.                        *)
(***************************************************************************)
\* The fee of n contracts at a price of whole cents on a venue:
\* Kalshi 0.07*n*p*(1-p), Polymarket n*p*feeBps/10000, any other venue 0.
VenueFee(venue, price, n, fee_bps) ==
    LET cents == price \div Cent
    IN  IF venue = Kalshi THEN 7 * n * cents * (100 - cents) * (DecScale \div 1000000)
        ELSE IF venue = Polymarket THEN n * cents * fee_bps * (DecScale \div 1000000)
        ELSE 0

\* yesFee + noFee of n contracts at a level pair of the walk.
PairFees(yes_level, no_level, n) ==
    VenueFee(w_in.platforms[1], yes_level.price, n, w_in.poly_fee_bps)
        + VenueFee(w_in.platforms[2], no_level.price, n, w_in.poly_fee_bps)

\* cost = yesPrice + noPrice + (yesFee + noFee)/n
IsMarginalCost(cost, yes_level, no_level, n) ==
    (cost - yes_level.price - no_level.price) * n = PairFees(yes_level, no_level, n)

FillFees(fill) ==
    PairFees(w_in.yes_asks[fill.yes_idx + 1], w_in.no_asks[fill.no_idx + 1], fill.size)

RECURSIVE SumFillFees(_)
SumFillFees(fills) ==
    IF fills = <<>> THEN 0 ELSE FillFees(Head(fills)) + SumFillFees(Tail(fills))

\* C27: at every walk step the marginal cost is yesPrice + noPrice +
\* (yesFee + noFee)/fill, each fee by the model of its side's venue, and the
\* total_fees returned is the sum of yesFee + noFee over the accepted fills.
C27_FeesByVenue ==
    /\ InLoop /\ FillSize(w_st) > 0 =>
          IsMarginalCost(CurCost, CurYes, CurNo, FillSize(w_st))
    /\ \A i \in 1..Len(w_fills) :
          IsMarginalCost(w_fills[i].cost, w_in.yes_asks[w_fills[i].yes_idx + 1],
                         w_in.no_asks[w_fills[i].no_idx + 1], w_fills[i].size)
    /\ Returned => w_result.total_fees = SumFillFees(w_fills)

\* Two accepted fills of a Polymarket YES leg against a Kalshi NO leg.
C27_Witness ==
    /\ Returned
    /\ Len(w_fills) >= 2
    /\ w_in.platforms = <<Polymarket, Kalshi>>
    /\ w_in.poly_fee_bps = 50
    /\ w_result.total_fees > ZERO

(***************************************************************************)
(* Claims about the walk over ladders of any shape, under WalkAnySpec.     *)
(***************************************************************************)
\* The loop was left at a level pair whose cost per contract is >= 1.00.
RejectedPair ==
    /\ ~w_st.running
    /\ LoopCond(w_in.yes_asks, w_in.no_asks, w_st)
    /\ FillSize(w_st) > 0
    /\ PairCost(CurYes.price, CurNo.price) >= ONE

\* The cursors before the i-th fill was the first, or those of the fill
\* before it.
CursorsBefore(i) ==
    IF i = 1 THEN [yes_idx |-> 0, no_idx |-> 0]
    ELSE [yes_idx |-> w_fills[i - 1].yes_idx, no_idx |-> w_fills[i - 1].no_idx]

\* C26: levels are consumed strictly in ladder order, every accepted pair
\* costs less than 1.00, and once a pair costing >= 1.00 is met nothing from
\* it or from any deeper level is included: the fills are a prefix of each
\* ladder and total_size is the sum of the fills accepted before that pair.
C26_GreedyPrefixStop ==
    /\ \A i \in 1..Len(w_fills) :
         /\ w_fills[i].yes_idx - CursorsBefore(i).yes_idx \in {0, 1}
         /\ w_fills[i].no_idx - CursorsBefore(i).no_idx \in {0, 1}
         /\ PairCost(w_in.yes_asks[w_fills[i].yes_idx + 1].price,
                     w_in.no_asks[w_fills[i].no_idx + 1].price) < ONE
    /\ RejectedPair =>
         /\ \A i \in 1..Len(w_fills) :
              /\ w_fills[i].yes_idx <= w_st.yes_idx
              /\ w_fills[i].no_idx <= w_st.no_idx
              /\ w_fills[i].yes_idx < w_st.yes_idx \/ w_fills[i].no_idx < w_st.no_idx
         /\ w_st.total_size = SumFills(w_fills)
    /\ Returned => w_result.total_size = SumFills(w_fills)

\* A walk returned after one accepted fill and a rejected pair, although a
\* deeper NO level would have made a pair costing less than 1.00.
C26_Witness ==
    /\ Returned
    /\ RejectedPair
    /\ Len(w_fills) = 1
    /\ \E j \in (w_st.no_idx + 2)..Len(w_in.no_asks) :
         /\ w_in.no_asks[j].amount >= ONE
         /\ PairCost(CurYes.price, w_in.no_asks[j].price) < ONE

\* The cursors after the i-th fill.
CursorsAfter(i) ==
    IF i = Len(w_fills) THEN [yes_idx |-> w_st.yes_idx, no_idx |-> w_st.no_idx]
    ELSE [yes_idx |-> w_fills[i + 1].yes_idx, no_idx |-> w_fills[i + 1].no_idx]

\* Every pass that did not stop the walk advanced a cursor; with the pass
\* that stops it, at most len(yes_asks) + len(no_asks) passes are made; no
\* cursor is past its ladder's end.
WalkBounded ==
    /\ w_st.yes_idx <= Len(w_in.yes_asks)
    /\ w_st.no_idx <= Len(w_in.no_asks)
    /\ \A i \in 1..Len(w_fills) :
         /\ w_fills[i].yes_idx < Len(w_in.yes_asks)
         /\ w_fills[i].no_idx < Len(w_in.no_asks)
         /\ CursorsAfter(i).yes_idx + CursorsAfter(i).no_idx
                > w_fills[i].yes_idx + w_fills[i].no_idx
    /\ Len(w_fills) + 1 <= Len(w_in.yes_asks) + Len(w_in.no_asks) \/ Len(w_fills) = 0

\* C28: the walk terminates for all finite ladders, empty ones, zero,
\* negative or fractional sizes and unsorted prices included: every pass
\* stops the walk or advances a cursor, at most len(yes_asks) + len(no_asks)
\* passes are made, cursors stay within the ladders, and the walk returns.
C28_WalkTerminates == []WalkBounded /\ <>Returned

\* A returned walk with a fill, over an unsorted YES ladder that holds a
\* non-positive amount, against a fractional NO amount.
C28_Witness ==
    /\ Returned
    /\ Len(w_fills) >= 1
    /\ \E i \in 1..Len(w_in.yes_asks) : w_in.yes_asks[i].amount <= ZERO
    /\ \E i \in 1..(Len(w_in.yes_asks) - 1) :
         w_in.yes_asks[i].price > w_in.yes_asks[i + 1].price
    /\ \E i \in 1..Len(w_in.no_asks) : w_in.no_asks[i].amount % DecScale # 0

(***************************************************************************)
(* Claims about the fillability of the emitted orders, under Spec.         *)
(***************************************************************************)
\* The ask ladders the walk of an opportunity went through, leg by leg.
YesLadderOf(opp) ==
    IF opp.direction = YesPolyNoKalshi THEN PolyYesBookOf(opp).asks
    ELSE IF opp.pair.inverse THEN derive_no_asks(KalshiYesBookOf(opp))
    ELSE KalshiYesBookOf(opp).asks

NoLadderOf(opp) ==
    IF opp.direction = YesKalshiNoPoly THEN derive_no_asks(PolyYesBookOf(opp))
    ELSE IF opp.pair.inverse THEN KalshiYesBookOf(opp).asks
    ELSE derive_no_asks(KalshiYesBookOf(opp))

\* The amount of the first k levels of a ladder.
RECURSIVE AmountOfFirst(_, _)
AmountOfFirst(ladder, k) ==
    IF k = 0 THEN ZERO ELSE ladder[k].amount + AmountOfFirst(ladder, k - 1)

\* The levels n contracts taken in ladder order come from.
ConsumedLevels(ladder, n) ==
    { k \in 1..Len(ladder) : AmountOfFirst(ladder, k - 1) < DecFrom(n) }

\* C29: for every emitted order pair, each leg's limit price is at least the
\* price of every ask level the walk consumed for that leg.
C29_OrdersFillable ==
    \A i \in 1..Len(opportunities) : \A k \in 1..(Len(opens) \div 2) :
        LET opp == opportunities[i]
            yes_order == opens[2 * k - 1]
            no_order == opens[2 * k]
        IN  (yes_order.instrument = opp.yes_side.instrument
                /\ no_order.instrument = opp.no_side.instrument) =>
               /\ \A l \in ConsumedLevels(YesLadderOf(opp), opp.max_contracts) :
                    yes_order.price >= YesLadderOf(opp)[l].price
               /\ \A l \in ConsumedLevels(NoLadderOf(opp), opp.max_contracts) :
                    no_order.price >= NoLadderOf(opp)[l].price

\* The same for the order pairs whose walk took each leg from one level.
OrdersFillableFromOneLevel ==
    \A i \in 1..Len(opportunities) : \A k \in 1..(Len(opens) \div 2) :
        LET opp == opportunities[i]
            yes_order == opens[2 * k - 1]
            no_order == opens[2 * k]
        IN  (yes_order.instrument = opp.yes_side.instrument
                /\ no_order.instrument = opp.no_side.instrument
                /\ ConsumedLevels(YesLadderOf(opp), opp.max_contracts) = {1}
                /\ ConsumedLevels(NoLadderOf(opp), opp.max_contracts) = {1}) =>
               /\ yes_order.price = YesLadderOf(opp)[1].price
               /\ no_order.price = NoLadderOf(opp)[1].price

(***************************************************************************)
(* Client order ids.                                                       *)
(***************************************************************************)
\* The counter value a client order id was formed from.
CounterOf(cid) == cid[2]

\* The ids handed out so far, over every cycle, are pairwise distinct, carry
\* the strategy id, and their counter values increase strictly; the counter
\* holds the last value handed out.
IdsDistinctIncreasing ==
    /\ \A i, j \in 1..Len(issued) : i < j =>
         /\ issued[i] # issued[j]
         /\ CounterOf(issued[i]) < CounterOf(issued[j])
    /\ \A i \in 1..Len(issued) : issued[i][1] = StrategyId
    /\ order_counter = (IF issued = <<>> THEN 0 ELSE CounterOf(issued[Len(issued)]))

\* The orders of the held cycle carry the last ids handed out; each pair
\* holds two consecutive counter values, the YES leg's first.
PairsTakeTwoIds ==
    /\ Len(opens) <= Len(issued)
    /\ \A j \in 1..Len(opens) :
         opens[j].cid = issued[Len(issued) - Len(opens) + j]
    /\ \A k \in 1..(Len(opens) \div 2) :
         /\ CounterOf(opens[2 * k].cid) = CounterOf(opens[2 * k - 1].cid) + 1
         /\ \E i \in 1..Len(ValidNow) :
              /\ opens[2 * k - 1].instrument = ValidNow[i].yes_side.instrument
              /\ opens[2 * k].instrument = ValidNow[i].no_side.instrument

\* A cycle hands out two ids for each valid opportunity with both legs in
\* the index and none for any other; it changes the counter and nothing
\* else of the strategy.
CycleTakesIds ==
    (pc = "idle" /\ pc' = "emitted") =>
        /\ order_counter' = order_counter
             + 2 * Cardinality({ i \in 1..Len(ValidOpps(config', opportunities')) :
                                   ValidOpps(config', opportunities')[i].yes_side.instrument
                                       \in instrument_index
                                   /\ ValidOpps(config', opportunities')[i].no_side.instrument
                                       \in instrument_index })
        /\ Len(issued') = Len(issued) + (order_counter' - order_counter)
        /\ UNCHANGED <<pairs, config, instrument_index>>

\* C31: over any sequence of cycles the emitted client order ids are
\* pairwise distinct with strictly increasing counter values; each emitted
\* pair takes two consecutive values, YES leg first; an opportunity dropped
\* for an unresolved instrument takes none; detection leaves the counter
\* alone, and the counter is the only strategy state a cycle changes.
C31_ClientOrderIds ==
    /\ [](IdsDistinctIncreasing /\ PairsTakeTwoIds)
    /\ [][CycleTakesIds]_vars

\* A second emitting cycle: ids 1 and 2 went out earlier, this cycle found
\* two valid opportunities, one with a leg missing from the index, and
\* emitted one pair with ids 3 and 4.
C31_Witness ==
    /\ pc = "emitted"
    /\ Len(issued) = 4
    /\ Len(opens) = 2
    /\ CounterOf(opens[1].cid) = 3
    /\ Len(ValidNow) = 2
    /\ \E i \in 1..2 : ~Resolved(ValidNow[i])

(***************************************************************************)
(* Pair independence, under DetectSpec.                                    *)
(***************************************************************************)
\* The book maps that hold for a pair's two YES keys what the given map
\* holds, and anything for the keys of other markets.
SameOwnBooks(pair) ==
    { books \in BookMaps :
        \A k \in {PolyYesKeyOf(pair), KalshiYesKeyOf(pair)} :
            /\ (k \in DOMAIN books) = (k \in DOMAIN dt_in.books)
            /\ k \in DOMAIN books => books[k] = dt_in.books[k] }

\* The pair lists with the k-th pair as given and the other pair of any
\* expiry and orientation.
SameOwnPair(k) ==
    { prs \in { <<PairA(ea, ia), PairB(eb, ib)>> :
                  ea \in Expiries, eb \in Expiries, ia \in BOOLEAN, ib \in BOOLEAN } :
        prs[k] = dt_in.pairs[k] }

\* C32: the opportunities reported for a pair are the same for every book
\* map that agrees on the pair's own Polymarket YES and Kalshi YES books and
\* for every expiry and orientation of the other pair, and the output holds
\* the first pair's opportunities followed by the second's.
C32_PairIndependence ==
    Detected =>
        /\ \A k \in 1..Len(dt_in.pairs) :
             /\ \A books \in SameOwnBooks(dt_in.pairs[k]) :
                  OppsOf(detect_opportunities(dt_in.pairs, DetectConfig, books,
                                              DefaultPolyFeeBps, dt_in.now),
                         dt_in.pairs[k])
                    = OppsOf(dt_first, dt_in.pairs[k])
             /\ \A prs \in SameOwnPair(k) :
                  OppsOf(detect_opportunities(prs, DetectConfig, dt_in.books,
                                              DefaultPolyFeeBps, dt_in.now),
                         dt_in.pairs[k])
                    = OppsOf(dt_first, dt_in.pairs[k])
        /\ dt_first = OppsOf(dt_first, dt_in.pairs[1]) \o OppsOf(dt_first, dt_in.pairs[2])

\* The first pair is monitored, has both books and is not profitable; the
\* second pair's opportunities are reported all the same.
C32_Witness ==
    /\ Detected
    /\ Monitored(dt_in.pairs[1], DetectConfig, dt_in.now)
    /\ HasBothBooks(dt_in.pairs[1])
    /\ OppsOf(dt_first, dt_in.pairs[1]) = <<>>
    /\ Len(dt_first) = 2
    /\ dt_first = OppsOf(dt_first, dt_in.pairs[2])

(***************************************************************************)
(* Frame conditions of the Kalshi order book, under KalshiSpec.            *)
(***************************************************************************)
OtherSide(side) == IF side = "yes" THEN "no" ELSE "yes"

\* A delta on a known side changes nothing but the addressed level and seq.
DeltaFrame(side, price) ==
    /\ k_book'[OtherSide(side)] = k_book[OtherSide(side)]
    /\ \A p \in (DOMAIN k_book[side] \cup DOMAIN k_book'[side]) \ {price} :
         /\ p \in DOMAIN k_book[side]
         /\ p \in DOMAIN k_book'[side]
         /\ k_book'[side][p] = k_book[side][p]

\* The price levels a snapshot side lists with a quantity above 0.
Listed(levels) == { levels[i][1] : i \in { j \in 1..Len(levels) : levels[j][2] > 0 } }

\* A book built from a snapshot holds the listed levels and no other.
FromSnapshotOnly ==
    k_last.op = "snapshot" =>
        /\ k_book.seq = k_last.msg.seq
        /\ \A side \in Sides :
             /\ DOMAIN k_book[side] = Listed(k_last.msg[side])
             /\ \A p \in DOMAIN k_book[side] :
                  \E i \in 1..Len(k_last.msg[side]) :
                      k_last.msg[side][i] = <<p, k_book[side][p]>>

\* C33: apply_delta changes at most the addressed price level of the
\* addressed side, and seq; a delta whose side is neither "yes" nor "no"
\* leaves the whole book, seq included, as it was; clear empties both sides
\* and keeps seq; a book built from a snapshot holds the snapshot's levels
\* and nothing of the book before.
C33_FrameConditions ==
    /\ [][ /\ \A side \in Sides, price \in KalshiCents, delta \in DeltaAmounts :
                KDelta(side, price, delta) => DeltaFrame(side, price)
           /\ \A side \in DeltaSides \ Sides, price \in KalshiCents, delta \in DeltaAmounts :
                KDelta(side, price, delta) => k_book' = k_book
           /\ KClear => /\ DOMAIN k_book'.yes = {} /\ DOMAIN k_book'.no = {}
                        /\ k_book'.seq = k_book.seq ]_vars
    /\ []FromSnapshotOnly

\* The third message is a snapshot that lists a YES level of quantity 0 and
\* one of quantity 1: the book holds the second and nothing else.
C33_Witness ==
    /\ k_last.op = "snapshot"
    /\ k_book.seq = 3
    /\ DOMAIN k_book.yes = {60}
    /\ DOMAIN k_book.no = {}
    /\ Len(k_last.msg.yes) = 2

(***************************************************************************)
(* The arithmetic of apply_delta, under KalshiSpec.                        *)
(***************************************************************************)
\* C38: for every quantity a u32 holds and every delta an i32 holds, with a
\* sum a u32 holds, apply_delta leaves max(0, current + delta) at the level,
\* computed exactly: the call completes, and a positive delta neither
\* removes nor shrinks a level.
C38_ExactArithmetic ==
    [][ \A side \in Sides, price \in KalshiCents, delta \in DeltaAmounts :
          LET current == IF price \in DOMAIN k_book[side] THEN k_book[side][price] ELSE 0
          IN  (KDelta(side, price, delta) /\ current + delta <= U32Max) =>
                  /\ k_last'.op = "delta"
                  /\ (current + delta > 0) =>
                        /\ price \in DOMAIN k_book'[side]
                        /\ k_book'[side][price] = current + delta
                  /\ (delta > 0 /\ current > 0) =>
                        /\ price \in DOMAIN k_book'[side]
                        /\ k_book'[side][price] > current ]_vars

(***************************************************************************)
(* Claims about the instrument data and the global data, under StateSpec.  *)
(***************************************************************************)
\* C34: after an order book event, Snapshot or Update alike, the stored
\* book is exactly the book the event carried, with nothing kept of the
\* book stored before; position, avg_entry and cost_basis are as before;
\* a market event of another kind changes nothing.
C34_MarketEventStoresBook ==
    s_last.op = "market" =>
        /\ s_last.event.kind \in {"Snapshot", "Update"} =>
              /\ i_data.orderbook = Some(s_last.event.book)
              /\ i_data.position = s_last.before.position
              /\ i_data.avg_entry = s_last.before.avg_entry
              /\ i_data.cost_basis = s_last.before.cost_basis
        /\ s_last.event.kind \notin {"Snapshot", "Update"} => i_data = s_last.before

\* An Update with a single ask reached an instrument that held a position
\* and a book of two asks and a bid: the one ask is all that is stored.
C34_Witness ==
    /\ s_last.op = "market"
    /\ s_last.event.kind = "Update"
    /\ s_last.before.orderbook.is_some
    /\ Len(s_last.before.orderbook.value.asks) = 2
    /\ Len(s_last.event.book.asks) = 1
    /\ i_data.position # 0
    /\ Len(i_data.orderbook.value.asks) = 1
    /\ i_data.orderbook.value.bids = <<>>

\* A trade both processors took.
Traded == s_last.op \in {"trade", "wrapped"}

\* C35: total_deployed is never negative; a Buy adds exactly price times
\* |quantity|; a Sell takes it off and stops at 0 when it is more than what
\* is deployed; available_capital is kalshi_balance plus polymarket_balance
\* less total_deployed.
C35_CapitalLedger ==
    /\ g_data.total_deployed >= ZERO
    /\ available_capital(g_data)
         = g_data.kalshi_balance + g_data.polymarket_balance - g_data.total_deployed
    /\ Traded =>
         LET amount == s_last.trade.price * Abs(s_last.trade.quantity)
         IN  /\ s_last.trade.side = "Buy" =>
                   g_data.total_deployed = s_last.deployed + amount
             /\ s_last.trade.side = "Sell" =>
                   g_data.total_deployed =
                       (IF amount > s_last.deployed THEN ZERO ELSE s_last.deployed - amount)

\* With 0.40 deployed, a Sell of two contracts at 0.50 released more than
\* that: nothing is deployed, and all of both balances is available.
C35_Witness ==
    /\ Traded
    /\ s_last.trade.side = "Sell"
    /\ s_last.deployed = 40 * Cent
    /\ s_last.trade.price * Abs(s_last.trade.quantity) = ONE
    /\ g_data.total_deployed = ZERO
    /\ available_capital(g_data) = 3 * ONE

\* The update_position call of the last trade: its quantity, and the
\* position before it.
CallQty == SignedQty(s_last.trade)

PosBefore == s_last.before.position

\* The call reduced a position without closing it; the call took a
\* position through zero.
PartialClose ==
    PosBefore # 0 /\ CallQty # 0 /\ (PosBefore > 0) # (CallQty > 0)
        /\ Abs(CallQty) < Abs(PosBefore)

Flip ==
    PosBefore # 0 /\ CallQty # 0 /\ (PosBefore > 0) # (CallQty > 0)
        /\ Abs(CallQty) > Abs(PosBefore)

\* What holds of the data between calls.
PositionShape ==
    /\ (i_data.position = 0) <=> (i_data.avg_entry = None)
    /\ i_data.position = 0 => i_data.cost_basis = ZERO

CostIsAvgTimesPosition ==
    i_data.position # 0 =>
        i_data.cost_basis = i_data.avg_entry.value * Abs(i_data.position)

\* What a call does.
PositionCall ==
    Traded =>
        /\ i_data.position = PosBefore + CallQty
        /\ CallQty = 0 => i_data = s_last.before
        /\ PartialClose => i_data.avg_entry = s_last.before.avg_entry
        /\ Flip => i_data.avg_entry = Some(s_last.trade.price)

\* C36: after any sequence of update_position calls from the default
\* state, position is the sum of the signed quantities; position is 0
\* exactly when avg_entry is None, and cost_basis is then 0; with a position,
\* cost_basis is avg_entry times |position|; a call with quantity 0 changes
\* nothing; a partial close keeps avg_entry; a flip through zero sets
\* avg_entry to the price of the flipping fill.
C36_PositionTracking ==
    /\ PositionShape
    /\ CostIsAvgTimesPosition
    /\ PositionCall

(***************************************************************************)
(* Claims about the order book recorder, under RecorderSpec.               *)
(***************************************************************************)
CountOf(rec, instrument) ==
    IF instrument \in DOMAIN rec.delta_counts THEN rec.delta_counts[instrument] ELSE 0

\* C37: for each instrument on its own, a write is triggered on every N-th
\* update of that instrument (N = snapshot_interval >= 1) and on no other;
\* the instrument's counter is 0 after a triggered write and below N after
\* every call; an update of another instrument leaves it as it was;
\* total_written never goes down and grows by at most 1 per update.
C37_RecorderInterval ==
    /\ \A i \in RecInstruments :
         /\ CountOf(recorder, i) < recorder.snapshot_interval
         /\ CountOf(recorder, i) = rec_seen[i] % recorder.snapshot_interval
    /\ rec_last.op = "update" =>
         /\ rec_last.triggered
              <=> rec_seen[rec_last.instrument] % recorder.snapshot_interval = 0
         /\ rec_last.triggered => CountOf(recorder, rec_last.instrument) = 0
         /\ \A i \in RecInstruments \ {rec_last.instrument} :
              /\ (i \in DOMAIN recorder.delta_counts)
                   = (i \in DOMAIN rec_last.before.delta_counts)
              /\ CountOf(recorder, i) = CountOf(rec_last.before, i)
         /\ recorder.total_written >= rec_last.before.total_written
         /\ recorder.total_written <= rec_last.before.total_written + 1
         /\ ~rec_last.triggered =>
              recorder.total_written = rec_last.before.total_written
         /\ recorder.snapshot_interval = rec_last.before.snapshot_interval

\* With an interval of 3, the sixth update of A triggered the second write
\* while B, two updates in, still waits for its third.
C37_Witness ==
    /\ recorder.snapshot_interval = 3
    /\ rec_last.op = "update"
    /\ rec_last.instrument = "A"
    /\ rec_last.triggered
    /\ rec_seen["A"] = 6
    /\ rec_seen["B"] = 2
    /\ CountOf(recorder, "B") = 2
    /\ recorder.total_written = 2

====
